---- MODULE Spec2Model ----
(***************************************************************************)
(* Model of astrbot_plugin_mathjax2image.                                  *)
(*                                                                         *)
(*  - BrowserManager (infrastructure/browser/browser_manager.py): the      *)
(*    shared browser, its playwright driver and the asyncio.Lock around    *)
(*    get_browser() and close().                                           *)
(*  - RenderOrchestrator.render -> PageRenderer.render_to_image ->         *)
(*    _do_render -> _load_and_wait / _wait_for_tikz / _take_screenshot.    *)
(*                                                                         *)
(* Every await of the code is one step of the model.  An awaited call on   *)
(* the browser either returns or raises; a task can be cancelled at an     *)
(* await (CancelledError is a BaseException: `except Exception` lets it    *)
(* through, `finally` blocks still run).                                   *)
(***************************************************************************)
EXTENDS Integers, Sequences, FiniteSets, TLC

(* ---- bounds ---------------------------------------------------------- *)
NumTasks == 3        \* concurrent callers of BrowserManager in SpecBrowser
MaxCalls == 2        \* render calls made one after another in Spec
MaxContainers == 2   \* .tikz-diagram containers of a rendered page

Tasks == 1 .. NumTasks
RenderCaller == 0    \* the caller id of PageRenderer._do_render
Callers == {RenderCaller} \cup Tasks

VARIABLES
  (* BrowserManager *)
  browser,      \* _browser: 0 is None, n > 0 the instance of the n-th launch
  connected,    \* _browser.is_connected() of the stored instance
  playwright,   \* _playwright is not None
  lock,         \* _lock: 0 is free, otherwise the caller holding it
  pc,           \* position of every caller inside get_browser()/close()
  ret,          \* instance get_browser() returned to the caller (0: none)
  seen,         \* <<_browser, is_connected()>> read by the caller's check
  launches,     \* calls of chromium.launch made so far
  faults,       \* failed starts/launches, disconnections, close() resets
  (* one render call *)
  rpc,          \* position of the render call
  calls,        \* render calls started
  tmp,          \* the temporary HTML file: "none", "exists", "deleted"
  page,         \* the page of the call: "none", "open", "closed", "crashed"
  exc,          \* exception in flight / raised by the call, "none" if none
  outcome,      \* "running", "returned" (a path), "raised", "none"
  failedAt,     \* stage whose exception aborted the call, "none" if none
  cancelled,    \* the task of the call was cancelled
  containers,   \* number of .tikz-diagram containers in the document
  svg,          \* svg[i]: container i holds an svg with a drawable primitive
  mathJaxReady, \* window.mathJaxReady === true
  mathResult,   \* how the math wait ended: "none", "ok", "timeout", "error"
  tikzResult,   \* how the diagram wait ended: "none", "ok", "timeout", "error"
  trace,        \* stages of the call, in the order they happened
  (* one evaluation of a plot expression *)
  expr,         \* syntax tree of the expression text, "SyntaxError" if none
  evaluator,    \* who evaluated it: "none", "safe_eval_math", "eval"
  result,       \* value returned to the caller, "pending" before the call
  called,       \* names of the functions the evaluation called
  raised,       \* an exception escaped the evaluation
  (* the conversion of the plot commands of a text *)
  tikz_code,    \* the text given to the converter
  outputs,      \* the texts returned so far: by the call, by a second call on it
  plots,        \* per plot sampled by the call: <<x, x_val, y_val>> of every turn
  (* the assembly of one document *)
  md_text,      \* the text given to the assembler
  converter,    \* who assembled it: "none", "MarkdownConverter", "MathJaxRenderer"
  normalized,   \* the text returned by _preprocess_markdown
  math_blocks,  \* the math spans taken out of the text
  code_blocks,  \* the fenced code blocks taken out of the text
  full_html,    \* the page returned
  (* the validator and the structural converters *)
  latex,        \* the text given to a structural component
  component,    \* which component was called: "none", "LatexValidator", ...
  results,      \* what its calls returned, in order
  (* LLMToolHandler *)
  last_rendered_image,  \* _last_rendered_image: None or a rendered image
  render_success,       \* _render_success
  tool_calls,   \* the calls of the two tool handlers, in the order they began
  sent,         \* what context.send_message delivered: <<origin, image>>
  (* PlaywrightDependencyInstaller *)
  installed,    \* _installed: "None", "True" or "False"
  install_attempted,    \* _install_attempted
  check_calls,  \* the render calls that reached check_and_install, in order
  lib_checks,   \* how often _check_missing_libs ran
  installs      \* how often _install_deps ran

bvars == <<browser, connected, playwright, lock, pc, ret, seen, launches, faults>>
rvars == <<rpc, calls, tmp, page, exc, outcome, failedAt, cancelled, containers, svg,
           mathJaxReady, mathResult, tikzResult, trace>>
vars == <<browser, connected, playwright, lock, pc, ret, seen, launches, faults,
          rpc, calls, tmp, page, exc, outcome, failedAt, cancelled, containers, svg,
          mathJaxReady, mathResult, tikzResult, trace,
          expr, evaluator, result, called, raised,
          tikz_code, outputs, plots,
          md_text, converter, normalized, math_blocks, code_blocks, full_html,
          latex, component, results,
          last_rendered_image, render_success, tool_calls, sent,
          installed, install_attempted, check_calls, lib_checks, installs>>
evars == <<expr, evaluator, result, called, raised>>
plotvars == <<tikz_code, outputs, plots>>
mdvars == <<md_text, converter, normalized, math_blocks, code_blocks, full_html>>
svars == <<latex, component, results>>
hvars == <<last_rendered_image, render_success, tool_calls, sent>>
ivars == <<installed, install_attempted, check_calls, lib_checks, installs>>
pvars == <<evars, plotvars, mdvars, svars, hvars, ivars>>

(* ---- BrowserManager -------------------------------------------------- *)

\* __init__: no playwright, no browser, a free lock.
BrowserManagerInit ==
  /\ browser = 0
  /\ connected = FALSE
  /\ playwright = FALSE
  /\ lock = 0
  /\ pc = [t \in Callers |-> "idle"]
  /\ ret = [t \in Callers |-> 0]
  /\ seen = [t \in Callers |-> <<0, FALSE>>]
  /\ launches = 0
  /\ faults = 0

\* `self._browser is None or not self._browser.is_connected()`
needs_launch_stored_only(b, c) == b = 0   \* variant: liveness not re-checked

needs_launch(b, c) == b = 0 \/ ~c

\* `async with self._lock` of get_browser: proceeds only when the lock is free.
\* (variant: entering without waiting for the lock)
get_browser_acquire_nolock(t) ==
  /\ pc[t] = "acquire"
  /\ lock' = t
  /\ pc' = [pc EXCEPT ![t] = "check"]
  /\ UNCHANGED <<browser, connected, playwright, ret, seen, launches, faults>>

get_browser_acquire(t) ==
  /\ pc[t] = "acquire"
  /\ lock = 0
  /\ lock' = t
  /\ pc' = [pc EXCEPT ![t] = "check"]
  /\ UNCHANGED <<browser, connected, playwright, ret, seen, launches, faults>>

\* The check inside the lock: reuse the stored instance (return it, release
\* the lock) or go on to start playwright / launch chromium.
get_browser_check(t) ==
  /\ pc[t] = "check"
  /\ seen' = [seen EXCEPT ![t] = <<browser, connected>>]
  /\ IF needs_launch(browser, connected)
       THEN /\ pc' = [pc EXCEPT ![t] = IF playwright THEN "launch" ELSE "start_pw"]
            /\ UNCHANGED <<lock, ret>>
       ELSE /\ ret' = [ret EXCEPT ![t] = browser]
            /\ lock' = 0
            /\ pc' = [pc EXCEPT ![t] = "returned"]
  /\ UNCHANGED <<browser, connected, playwright, launches, faults>>

\* `self._playwright = await async_playwright().start()`; an exception is
\* re-raised as BrowserError and the lock is released.
get_browser_start_playwright(t) ==
  /\ pc[t] = "start_pw"
  /\ \/ /\ playwright' = TRUE
        /\ pc' = [pc EXCEPT ![t] = "launch"]
        /\ UNCHANGED <<lock, faults>>
     \/ /\ pc' = [pc EXCEPT ![t] = "raised"]
        /\ lock' = 0
        /\ faults' = faults + 1
        /\ UNCHANGED playwright
  /\ UNCHANGED <<browser, connected, ret, seen, launches>>

\* `self._browser = await self._playwright.chromium.launch(...)` and
\* `return self._browser`; a failed launch leaves _browser as it was.
get_browser_launch(t) ==
  /\ pc[t] = "launch"
  /\ launches' = launches + 1
  /\ \/ /\ browser' = launches + 1
        /\ connected' = TRUE
        /\ ret' = [ret EXCEPT ![t] = launches + 1]
        /\ pc' = [pc EXCEPT ![t] = "returned"]
        /\ UNCHANGED faults
     \/ /\ pc' = [pc EXCEPT ![t] = "raised"]
        /\ faults' = faults + 1
        /\ UNCHANGED <<browser, connected, ret>>
  /\ lock' = 0
  /\ UNCHANGED <<playwright, seen>>

\* `async with self._lock` of close.
close_acquire(t) ==
  /\ pc[t] = "close_acquire"
  /\ lock = 0
  /\ lock' = t
  /\ pc' = [pc EXCEPT ![t] = "close_browser"]
  /\ UNCHANGED <<browser, connected, playwright, ret, seen, launches, faults>>

\* `if self._browser: await self._browser.close()`; whether the close
\* returns or raises, the finally clause sets _browser to None.
close_browser(t) ==
  /\ pc[t] = "close_browser"
  /\ browser' = 0
  /\ connected' = FALSE
  /\ faults' = IF browser # 0 THEN faults + 1 ELSE faults
  /\ pc' = [pc EXCEPT ![t] = "close_pw"]
  /\ UNCHANGED <<playwright, lock, ret, seen, launches>>

\* `if self._playwright: await self._playwright.stop()`; the finally clause
\* sets _playwright to None; then the lock is released.
close_playwright(t) ==
  /\ pc[t] = "close_pw"
  /\ playwright' = FALSE
  /\ lock' = 0
  /\ pc' = [pc EXCEPT ![t] = "closed"]
  /\ UNCHANGED <<browser, connected, ret, seen, launches, faults>>

\* The browser process dies or its connection drops: is_connected() of the
\* stored instance becomes False.
browser_disconnected ==
  /\ browser # 0
  /\ connected
  /\ connected' = FALSE
  /\ faults' = faults + 1
  /\ UNCHANGED <<browser, playwright, lock, pc, ret, seen, launches>>

\* A task calls get_browser() / close().
call_get_browser(t) ==
  /\ pc[t] = "idle"
  /\ pc' = [pc EXCEPT ![t] = "acquire"]
  /\ UNCHANGED <<browser, connected, playwright, lock, ret, seen, launches, faults>>

call_close(t) ==
  /\ pc[t] = "idle"
  /\ pc' = [pc EXCEPT ![t] = "close_acquire"]
  /\ UNCHANGED <<browser, connected, playwright, lock, ret, seen, launches, faults>>

\* The task is cancelled while suspended at an await of get_browser()/close().
\* `async with` releases the lock; the finally clauses of close() run.
task_cancelled(t) ==
  /\ \/ pc[t] \in {"acquire", "close_acquire", "start_pw", "launch"}
     \/ pc[t] = "close_browser" /\ browser # 0
     \/ pc[t] = "close_pw" /\ playwright
  /\ pc' = [pc EXCEPT ![t] = "cancelled"]
  /\ lock' = IF lock = t THEN 0 ELSE lock
  /\ browser' = IF pc[t] = "close_browser" THEN 0 ELSE browser
  /\ connected' = IF pc[t] = "close_browser" THEN FALSE ELSE connected
  /\ faults' = IF pc[t] = "close_browser" /\ browser # 0 THEN faults + 1 ELSE faults
  /\ playwright' = IF pc[t] = "close_pw" THEN FALSE ELSE playwright
  /\ UNCHANGED <<ret, seen, launches>>

RenderIdle ==
  /\ rpc = "idle"
  /\ calls = 0
  /\ tmp = "none"
  /\ page = "none"
  /\ exc = "none"
  /\ outcome = "none"
  /\ failedAt = "none"
  /\ cancelled = FALSE
  /\ containers = 0
  /\ svg = [i \in 1 .. MaxContainers |-> FALSE]
  /\ mathJaxReady = FALSE
  /\ mathResult = "none"
  /\ tikzResult = "none"
  /\ trace = << >>


(* ---- exceptions ------------------------------------------------------ *)

\* domain/errors.py: RenderError and the subclasses this path can raise.
RenderErrorKinds == {"RenderError", "BrowserError", "DependencyError"}

\* `except Exception as e: ... raise RenderError(...)` of _do_render:
\* every Exception (BrowserError included) becomes a plain RenderError;
\* CancelledError is not an Exception and passes.
do_render_except(e) == IF e = "CancelledError" THEN e ELSE "RenderError"

\* `except (DependencyError, RenderError): raise` / `except Exception` of
\* RenderOrchestrator.render.
render_except_reraise(e) == e   \* variant: bare re-raise

render_except(e) ==
  IF e \in RenderErrorKinds \/ e = "CancelledError" THEN e ELSE "RenderError"

\* `except Exception as e: logger.warning(...)` around the math wait: the
\* exception is dropped ("none" goes on), CancelledError passes.
load_and_wait_except_reraise(e) == e   \* variant: bare re-raise

load_and_wait_except(e) == IF e = "CancelledError" THEN e ELSE "none"

\* `except Exception as e: logger.warning(...)` around the diagram wait,
\* which encloses the wait, json_value() and `raise RenderError(...)`.
wait_for_tikz_except(e) == IF e = "CancelledError" THEN e ELSE "none"

\* `if tikz_count == 0: return`, otherwise the diagram wait.
wait_for_tikz_branch_always(n) == "tikz_wait"   \* variant: no early return

wait_for_tikz_branch(n) == IF n = 0 THEN "height" ELSE "tikz_wait"

\* The predicate polled by the diagram wait: document.querySelector takes
\* the first .tikz-diagram container, and only its svg is inspected.
wait_for_tikz_predicate(n, s) == n >= 1 /\ s[1]

(* ---- how a render call ends ------------------------------------------ *)

Log(e) == trace' = Append(trace, e)

Fail(at) == failedAt' = IF failedAt = "none" THEN at ELSE failedAt

\* The call returns output_path.
render_returns ==
  /\ rpc' = "done"
  /\ outcome' = "returned"
  /\ exc' = "none"

\* Exception e leaves RenderOrchestrator.render.
render_raises(e) ==
  /\ rpc' = "done"
  /\ outcome' = "raised"
  /\ exc' = render_except(e)

\* Exception e leaves _do_render outside the inner try: the except clause
\* of _do_render, the finally of render_to_image (unlink), then render.
do_render_raises(e) ==
  /\ render_raises(do_render_except(e))
  /\ tmp' = "deleted"

(* ---- RenderOrchestrator.render / PageRenderer.render_to_image -------- *)

\* A new render call; the document it renders holds n diagram containers.
render_start ==
  /\ rpc \in {"idle", "done"}
  /\ calls < MaxCalls
  /\ calls' = calls + 1
  /\ rpc' = "check_deps"
  /\ tmp' = "none"
  /\ page' = "none"
  /\ exc' = "none"
  /\ outcome' = "running"
  /\ failedAt' = "none"
  /\ cancelled' = FALSE
  /\ \E n \in 0 .. MaxContainers : containers' = n
  /\ svg' = [i \in 1 .. MaxContainers |-> FALSE]
  /\ mathJaxReady' = FALSE
  /\ mathResult' = "none"
  /\ tikzResult' = "none"
  /\ trace' = << >>
  /\ UNCHANGED bvars

\* `if not await self._dependency_installer.check_and_install(): raise
\* DependencyError(...)`.
render_check_deps ==
  /\ rpc = "check_deps"
  /\ \/ /\ rpc' = "convert"
        /\ UNCHANGED <<exc, outcome, failedAt>>
     \/ /\ render_raises("DependencyError")
        /\ Fail("check_deps")
     \/ /\ render_raises("Exception")
        /\ Fail("check_deps")
  /\ UNCHANGED <<calls, tmp, page, cancelled, containers, svg, mathJaxReady,
                 mathResult, tikzResult, trace>>
  /\ UNCHANGED bvars

\* preprocess, convert_to_html, get_data_dir: synchronous, may raise.
render_convert ==
  /\ rpc = "convert"
  /\ \/ /\ rpc' = "mkdir"
        /\ UNCHANGED <<exc, outcome, failedAt>>
     \/ /\ render_raises("Exception")
        /\ Fail("convert")
  /\ UNCHANGED <<calls, tmp, page, cancelled, containers, svg, mathJaxReady,
                 mathResult, tikzResult, trace>>
  /\ UNCHANGED bvars

\* `temp_dir.mkdir(exist_ok=True)`.
render_to_image_mkdir ==
  /\ rpc = "mkdir"
  /\ \/ /\ rpc' = "open"
        /\ UNCHANGED <<exc, outcome, failedAt>>
     \/ /\ render_raises("OSError")
        /\ Fail("mkdir")
  /\ UNCHANGED <<calls, tmp, page, cancelled, containers, svg, mathJaxReady,
                 mathResult, tikzResult, trace>>
  /\ UNCHANGED bvars

\* `with open(tmp_path, "w", encoding="utf-8") as f`: creates the file.
render_to_image_open ==
  /\ rpc = "open"
  /\ \/ /\ rpc' = "write"
        /\ tmp' = "exists"
        /\ UNCHANGED <<exc, outcome, failedAt>>
     \/ /\ render_raises("OSError")
        /\ Fail("open")
        /\ UNCHANGED tmp
  /\ UNCHANGED <<calls, page, cancelled, containers, svg, mathJaxReady,
                 mathResult, tikzResult, trace>>
  /\ UNCHANGED bvars

\* `f.write(html)`: before the try/finally that unlinks the file, so an
\* exception here (disk full, a string utf-8 cannot encode) leaves the file.
render_to_image_write ==
  /\ rpc = "write"
  /\ \/ /\ rpc' = "get_browser"
        /\ pc' = [pc EXCEPT ![RenderCaller] = "acquire"]
        /\ UNCHANGED <<exc, outcome, failedAt>>
     \/ /\ render_raises("OSError")
        /\ Fail("write")
        /\ UNCHANGED pc
  /\ UNCHANGED <<calls, tmp, page, cancelled, containers, svg, mathJaxReady,
                 mathResult, tikzResult, trace>>
  /\ UNCHANGED <<browser, connected, playwright, lock, ret, seen, launches, faults>>

(* ---- PageRenderer._do_render ----------------------------------------- *)

\* get_browser() raised BrowserError: the except clause of _do_render.
do_render_browser_error ==
  /\ rpc = "get_browser"
  /\ pc[RenderCaller] = "raised"
  /\ do_render_raises("BrowserError")
  /\ Fail("get_browser")
  /\ UNCHANGED <<calls, page, cancelled, containers, svg, mathJaxReady,
                 mathResult, tikzResult, trace>>
  /\ UNCHANGED bvars

\* `page = await browser.new_page(...)`.
do_render_new_page ==
  /\ rpc = "get_browser"
  /\ pc[RenderCaller] = "returned"
  /\ \/ /\ rpc' = "init_script"
        /\ page' = "open"
        /\ UNCHANGED <<exc, outcome, failedAt, tmp>>
     \/ /\ do_render_raises("Exception")
        /\ Fail("new_page")
        /\ UNCHANGED page
  /\ UNCHANGED <<calls, cancelled, containers, svg, mathJaxReady,
                 mathResult, tikzResult, trace>>
  /\ UNCHANGED bvars

\* `await page.add_init_script(inject_script)`: outside the inner
\* try/finally, so an exception leaves without page.close().
do_render_add_init_script ==
  /\ rpc = "init_script"
  /\ \/ /\ rpc' = "font_routes"
        /\ UNCHANGED <<exc, outcome, failedAt, tmp>>
     \/ /\ do_render_raises("Exception")
        /\ Fail("init_script")
  /\ UNCHANGED <<calls, page, cancelled, containers, svg, mathJaxReady,
                 mathResult, tikzResult, trace>>
  /\ UNCHANGED bvars

\* `await self._setup_font_routes(page)` (two page.route calls) and
\* _setup_logging: also outside the inner try/finally.
do_render_setup_font_routes ==
  /\ rpc = "font_routes"
  /\ \/ /\ rpc' = "goto"
        /\ UNCHANGED <<exc, outcome, failedAt, tmp>>
     \/ /\ do_render_raises("Exception")
        /\ Fail("font_routes")
  /\ UNCHANGED <<calls, page, cancelled, containers, svg, mathJaxReady,
                 mathResult, tikzResult, trace>>
  /\ UNCHANGED bvars

\* An exception e inside the inner try: the finally clause (page.close())
\* runs next with e in flight.
InnerRaise(e, at) ==
  /\ rpc' = "page_close"
  /\ exc' = e
  /\ Fail(at)

\* `finally: await page.close()`, then the rest of the way out: return, or
\* the except clause of _do_render; the unlink of render_to_image.
do_render_page_close ==
  /\ rpc = "page_close"
  /\ \/ /\ page' = "closed"
        /\ IF exc = "none"
             THEN render_returns /\ UNCHANGED failedAt
             ELSE render_raises(do_render_except(exc)) /\ UNCHANGED failedAt
     \/ /\ page' = "crashed"
        /\ render_raises(do_render_except("Exception"))
        /\ Fail("page_close")
  /\ tmp' = "deleted"
  /\ UNCHANGED <<calls, cancelled, containers, svg, mathJaxReady,
                 mathResult, tikzResult, trace>>
  /\ UNCHANGED bvars

(* ---- PageRenderer._load_and_wait ------------------------------------- *)

\* `await page.goto(..., wait_until="domcontentloaded", timeout=60000)`.
load_and_wait_goto ==
  /\ rpc = "goto"
  /\ \/ /\ rpc' = "math_wait"
        /\ Log("goto")
        /\ UNCHANGED <<exc, failedAt>>
     \/ /\ \E e \in {"TimeoutError", "Exception"} : InnerRaise(e, "goto")
        /\ UNCHANGED trace
  /\ UNCHANGED <<calls, tmp, page, outcome, cancelled, containers, svg,
                 mathJaxReady, mathResult, tikzResult>>
  /\ UNCHANGED bvars

\* The math wait ends with result r; e is the exception it raised ("none"
\* when the flag was seen).  What the except clause leaves decides.
MathWaitEnds(r, e) ==
  /\ mathResult' = r
  /\ Log("math_wait")
  /\ IF load_and_wait_except(e) = "none"
       THEN /\ rpc' = "tikz_count"
            /\ UNCHANGED <<exc, failedAt>>
       ELSE InnerRaise(load_and_wait_except(e), "math_wait")

\* `await page.wait_for_function("() => window.mathJaxReady === true",
\* timeout=self._mathjax_timeout)` inside try/except Exception.
load_and_wait_math_ready ==
  /\ rpc = "math_wait"
  /\ mathJaxReady
  /\ MathWaitEnds("ok", "none")
  /\ UNCHANGED <<calls, tmp, page, outcome, cancelled, containers, svg,
                 mathJaxReady, tikzResult>>
  /\ UNCHANGED bvars

load_and_wait_math_timeout ==
  /\ rpc = "math_wait"
  /\ ~mathJaxReady
  /\ MathWaitEnds("timeout", "TimeoutError")
  /\ UNCHANGED <<calls, tmp, page, outcome, cancelled, containers, svg,
                 mathJaxReady, tikzResult>>
  /\ UNCHANGED bvars

load_and_wait_math_error ==
  /\ rpc = "math_wait"
  /\ MathWaitEnds("error", "Exception")
  /\ UNCHANGED <<calls, tmp, page, outcome, cancelled, containers, svg,
                 mathJaxReady, tikzResult>>
  /\ UNCHANGED bvars

(* ---- PageRenderer._wait_for_tikz ------------------------------------- *)

\* `tikz_count = await page.evaluate(...querySelectorAll('.tikz-diagram')
\* .length)` and `if tikz_count == 0: return`.
wait_for_tikz_count ==
  /\ rpc = "tikz_count"
  /\ \/ /\ rpc' = wait_for_tikz_branch(containers)
        /\ Log("tikz_count")
        /\ UNCHANGED <<exc, failedAt>>
     \/ /\ InnerRaise("Exception", "tikz_count")
        /\ UNCHANGED trace
  /\ UNCHANGED <<calls, tmp, page, outcome, cancelled, containers, svg,
                 mathJaxReady, mathResult, tikzResult>>
  /\ UNCHANGED bvars

\* The diagram wait ends with result r, raising e ("none": the predicate
\* became truthy).
TikzWaitEnds(r, e, next) ==
  /\ tikzResult' = r
  /\ Log("tikz_wait")
  /\ IF wait_for_tikz_except(e) = "none"
       THEN /\ rpc' = next
            /\ UNCHANGED <<exc, failedAt>>
       ELSE InnerRaise(wait_for_tikz_except(e), "tikz_wait")

\* `result = await page.wait_for_function(<predicate>, timeout=
\* self._tikz_timeout)`: the predicate became truthy.
wait_for_tikz_found ==
  /\ rpc = "tikz_wait"
  /\ wait_for_tikz_predicate(containers, svg)
  /\ TikzWaitEnds("ok", "none", "json_value")
  /\ UNCHANGED <<calls, tmp, page, outcome, cancelled, containers, svg,
                 mathJaxReady, mathResult>>
  /\ UNCHANGED bvars

\* The timeout elapsed with the predicate still falsy: TimeoutError.
wait_for_tikz_timeout ==
  /\ rpc = "tikz_wait"
  /\ ~wait_for_tikz_predicate(containers, svg)
  /\ TikzWaitEnds("timeout", "TimeoutError", "sleep")
  /\ UNCHANGED <<calls, tmp, page, outcome, cancelled, containers, svg,
                 mathJaxReady, mathResult>>
  /\ UNCHANGED bvars

\* The wait raised something else (page crashed, browser gone).
wait_for_tikz_error ==
  /\ rpc = "tikz_wait"
  /\ TikzWaitEnds("error", "Exception", "sleep")
  /\ UNCHANGED <<calls, tmp, page, outcome, cancelled, containers, svg,
                 mathJaxReady, mathResult>>
  /\ UNCHANGED bvars

\* `tikz_result = await result.json_value()`: the predicate's only truthy
\* value has success = true, so the else branch (raise RenderError) needs a
\* json_value() that raises; either way the except clause is the same.
wait_for_tikz_json_value ==
  /\ rpc = "json_value"
  /\ \E e \in {"none", "Exception"} :
       IF wait_for_tikz_except(e) = "none"
         THEN /\ rpc' = "sleep"
              /\ UNCHANGED <<exc, failedAt>>
         ELSE InnerRaise(wait_for_tikz_except(e), "json_value")
  /\ UNCHANGED <<calls, tmp, page, outcome, cancelled, containers, svg,
                 mathJaxReady, mathResult, tikzResult, trace>>
  /\ UNCHANGED bvars

\* `await asyncio.sleep(2)`.
wait_for_tikz_sleep ==
  /\ rpc = "sleep"
  /\ rpc' = "height"
  /\ Log("sleep")
  /\ UNCHANGED <<calls, tmp, page, exc, outcome, failedAt, cancelled, containers,
                 svg, mathJaxReady, mathResult, tikzResult>>
  /\ UNCHANGED bvars

(* ---- PageRenderer._take_screenshot ----------------------------------- *)

\* `height = await page.evaluate("document.body.scrollHeight")`.
\* (variant: the screenshot without the resize)
take_screenshot_height_then_shot ==
  /\ rpc = "height"
  /\ rpc' = "screenshot"
  /\ Log("height")
  /\ UNCHANGED <<calls, tmp, page, exc, outcome, failedAt, cancelled, containers,
                 svg, mathJaxReady, mathResult, tikzResult>>
  /\ UNCHANGED bvars

take_screenshot_height ==
  /\ rpc = "height"
  /\ \/ /\ rpc' = "resize"
        /\ Log("height")
        /\ UNCHANGED <<exc, failedAt>>
     \/ /\ InnerRaise("Exception", "height")
        /\ UNCHANGED trace
  /\ UNCHANGED <<calls, tmp, page, outcome, cancelled, containers, svg,
                 mathJaxReady, mathResult, tikzResult>>
  /\ UNCHANGED bvars

\* `await page.set_viewport_size({"width": ..., "height": height})`.
take_screenshot_resize ==
  /\ rpc = "resize"
  /\ \/ /\ rpc' = "screenshot"
        /\ Log("resize")
        /\ UNCHANGED <<exc, failedAt>>
     \/ /\ InnerRaise("Exception", "resize")
        /\ UNCHANGED trace
  /\ UNCHANGED <<calls, tmp, page, outcome, cancelled, containers, svg,
                 mathJaxReady, mathResult, tikzResult>>
  /\ UNCHANGED bvars

\* `await page.screenshot(path=..., full_page=True, timeout=
\* self._screenshot_timeout)`; then the inner finally.
take_screenshot_capture ==
  /\ rpc = "screenshot"
  /\ Log("screenshot")
  /\ \/ /\ rpc' = "page_close"
        /\ UNCHANGED <<exc, failedAt>>
     \/ \E e \in {"TimeoutError", "Exception"} : InnerRaise(e, "screenshot")
  /\ UNCHANGED <<calls, tmp, page, outcome, cancelled, containers, svg,
                 mathJaxReady, mathResult, tikzResult>>
  /\ UNCHANGED bvars

(* ---- cancellation of the render task --------------------------------- *)

\* Awaits inside the inner try of _do_render.
InnerAwaits == {"goto", "math_wait", "tikz_count", "tikz_wait", "json_value",
                "sleep", "height", "resize", "screenshot"}

\* CancelledError at an await inside the inner try: page.close() runs next.
render_cancelled_inner ==
  /\ rpc \in InnerAwaits
  /\ cancelled' = TRUE
  /\ rpc' = "page_close"
  /\ exc' = "CancelledError"
  /\ UNCHANGED <<calls, tmp, page, outcome, failedAt, containers, svg,
                 mathJaxReady, mathResult, tikzResult, trace>>
  /\ UNCHANGED bvars

\* CancelledError at an await of _do_render outside the inner try
\* (new_page is reached through get_browser below), or at page.close().
render_cancelled_outer ==
  /\ rpc \in {"init_script", "font_routes", "page_close"}
  /\ cancelled' = TRUE
  /\ do_render_raises("CancelledError")
  /\ UNCHANGED <<calls, page, failedAt, containers, svg,
                 mathJaxReady, mathResult, tikzResult, trace>>
  /\ UNCHANGED bvars

\* CancelledError while suspended inside get_browser().
render_cancelled_get_browser ==
  /\ rpc = "get_browser"
  /\ task_cancelled(RenderCaller)
  /\ cancelled' = TRUE
  /\ do_render_raises("CancelledError")
  /\ UNCHANGED <<calls, page, failedAt, containers, svg,
                 mathJaxReady, mathResult, tikzResult, trace>>

\* CancelledError while awaiting check_and_install(): no file exists yet.
render_cancelled_check_deps ==
  /\ rpc = "check_deps"
  /\ cancelled' = TRUE
  /\ render_raises("CancelledError")
  /\ UNCHANGED <<calls, tmp, page, failedAt, containers, svg,
                 mathJaxReady, mathResult, tikzResult, trace>>
  /\ UNCHANGED bvars

(* ---- the page's own scripts ------------------------------------------ *)

PageLoaded == rpc \in InnerAwaits \ {"goto"}

\* MathJax finishes typesetting and sets window.mathJaxReady.
mathjax_ready ==
  /\ PageLoaded
  /\ ~mathJaxReady
  /\ mathJaxReady' = TRUE
  /\ UNCHANGED <<rpc, calls, tmp, page, exc, outcome, failedAt, cancelled,
                 containers, svg, mathResult, tikzResult, trace>>
  /\ UNCHANGED bvars

\* TikZJax finishes container i: its script is replaced by an svg that
\* holds drawable primitives.
tikzjax_compiled(i) ==
  /\ PageLoaded
  /\ i <= containers
  /\ ~svg[i]
  /\ svg' = [svg EXCEPT ![i] = TRUE]
  /\ UNCHANGED <<rpc, calls, tmp, page, exc, outcome, failedAt, cancelled,
                 containers, mathJaxReady, mathResult, tikzResult, trace>>
  /\ UNCHANGED bvars

None == << >>

(* ---- Python floats --------------------------------------------------- *)

\* A float is <<n, d>>: the rational n/d in lowest terms with d > 0;
\* <<1, 0>> is inf, <<-1, 0>> is -inf, <<0, 0>> is nan.  Other results of an
\* evaluation are 1-tuples: <<"untracked">> is a finite nonzero float whose
\* digits the model does not follow (an irrational root, sin(2), pi ...),
\* <<"complex">> a complex number, <<"ValueError">> and the like a raised
\* exception, and any other name the object of that name.
NaN == <<0, 0>>
Inf == <<1, 0>>
NegInf == <<-1, 0>>
Untracked == <<"untracked">>
Complex == <<"complex">>

\* subclasses of Exception that an evaluation can raise
ExceptionNames == {"ValueError", "ZeroDivisionError", "TypeError", "NameError",
                   "SyntaxError", "OverflowError", "AttributeError"}
\* SystemExit derives from BaseException: `except Exception` lets it pass
BaseExceptionNames == {"SystemExit"}

IsFloat(v) == Len(v) = 2
IsRaise(v) == Len(v) = 1 /\ v[1] \in ExceptionNames \cup BaseExceptionNames
isnan(v) == v = NaN
isinf(v) == IsFloat(v) /\ v[2] = 0 /\ v[1] # 0
IsRational(v) == IsFloat(v) /\ v[2] # 0
IsZero(v) == IsRational(v) /\ v[1] = 0
IsNumber(v) == IsFloat(v) \/ v = Untracked

Abs(n) == IF n < 0 THEN -n ELSE n

RECURSIVE GCD(_, _)
GCD(a, b) == IF b = 0 THEN a ELSE GCD(b, a % b)

\* the float n/d, d # 0
Float(n, d) ==
  LET g == GCD(Abs(n), Abs(d))
      s == IF d < 0 THEN -1 ELSE 1
  IN  <<(s * n) \div g, (s * d) \div g>>

Sign(v) == IF v[1] > 0 THEN 1 ELSE IF v[1] < 0 THEN -1 ELSE 0
IsInteger(v) == IsRational(v) /\ v[2] = 1
\* floor of the rational n/d, d > 0
Floor(v) == v[1] \div v[2]

float_neg(x) == IF x = Untracked THEN Untracked ELSE <<-x[1], x[2]>>

float_add(x, y) ==
  IF isnan(x) \/ isnan(y) THEN NaN
  ELSE IF isinf(x) /\ isinf(y) THEN (IF x = y THEN x ELSE NaN)
  ELSE IF isinf(x) THEN x
  ELSE IF isinf(y) THEN y
  ELSE IF x = Untracked \/ y = Untracked THEN Untracked
  ELSE Float(x[1] * y[2] + y[1] * x[2], x[2] * y[2])

float_sub(x, y) == float_add(x, float_neg(y))

float_mul(x, y) ==
  IF isnan(x) \/ isnan(y) THEN NaN
  ELSE IF isinf(x) \/ isinf(y)
       THEN (IF IsZero(x) \/ IsZero(y) THEN NaN
             ELSE IF x = Untracked \/ y = Untracked THEN Untracked
             ELSE <<Sign(x) * Sign(y), 0>>)
  ELSE IF IsZero(x) \/ IsZero(y) THEN Float(0, 1)
  ELSE IF x = Untracked \/ y = Untracked THEN Untracked
  ELSE Float(x[1] * y[1], x[2] * y[2])

\* float_div of floatobject.c tests the divisor for zero before all else
float_truediv(x, y) ==
  IF IsZero(y) THEN <<"ZeroDivisionError">>
  ELSE IF isnan(x) \/ isnan(y) THEN NaN
  ELSE IF isinf(x) /\ isinf(y) THEN NaN
  ELSE IF isinf(y) THEN Float(0, 1)
  ELSE IF x = Untracked \/ y = Untracked
       THEN (IF IsZero(x) THEN Float(0, 1) ELSE Untracked)
  ELSE IF isinf(x) THEN <<Sign(x) * Sign(y), 0>>
  ELSE Float(x[1] * y[2], x[2] * y[1])

float_floordiv(x, y) ==
  IF IsZero(y) THEN <<"ZeroDivisionError">>
  ELSE IF isnan(x) \/ isnan(y) \/ isinf(x) THEN NaN
  ELSE IF x = Untracked \/ y = Untracked THEN Untracked
  ELSE IF isinf(y)
       THEN (IF Sign(x) = 0 \/ Sign(x) = Sign(y) THEN Float(0, 1) ELSE Float(-1, 1))
  ELSE Float(Floor(Float(x[1] * y[2], x[2] * y[1])), 1)

float_mod(x, y) ==
  IF IsZero(y) THEN <<"ZeroDivisionError">>
  ELSE IF isnan(x) \/ isnan(y) \/ isinf(x) THEN NaN
  ELSE IF x = Untracked \/ y = Untracked THEN Untracked
  ELSE IF isinf(y)
       THEN (IF Sign(x) = 0 \/ Sign(x) = Sign(y) THEN x ELSE y)
  ELSE float_sub(x, float_mul(y, float_floordiv(x, y)))

\* x < y for two rationals
Less(x, y) == x[1] * y[2] < y[1] * x[2]
One == Float(1, 1)
Zero == Float(0, 1)
IsOdd(y) == IsInteger(y) /\ y[1] % 2 = 1

\* float_pow of floatobject.c
float_pow(x, y) ==
  IF IsZero(y) THEN One
  ELSE IF isnan(x) THEN NaN
  ELSE IF isnan(y) THEN (IF x = One THEN One ELSE NaN)
  ELSE IF x = Untracked \/ y = Untracked THEN Untracked
  ELSE IF isinf(y)
       THEN (IF x = One \/ x = Float(-1, 1) THEN One
             ELSE IF (Sign(y) > 0) = (isinf(x) \/ Less(One, <<Abs(x[1]), x[2]>>))
                  THEN Inf
             ELSE Zero)
  ELSE IF isinf(x)
       THEN (IF Sign(y) > 0 THEN (IF IsOdd(y) THEN x ELSE Inf) ELSE Zero)
  ELSE IF IsZero(x)
       THEN (IF Sign(y) < 0 THEN <<"ZeroDivisionError">> ELSE Zero)
  ELSE IF ~IsInteger(y)
       THEN (IF Sign(x) < 0 THEN Complex
             ELSE IF x = One THEN One
             ELSE Untracked)
  ELSE IF y[1] > 0 THEN Float(x[1] ^ y[1], x[2] ^ y[1])
  ELSE Float(x[2] ^ (-y[1]), x[1] ^ (-y[1]))

IsSquare(n) == \E r \in 0 .. n : r * r = n
ISqrt(n) == CHOOSE r \in 0 .. n : r * r = n

math_sqrt(x) ==
  IF ~IsNumber(x) THEN <<"TypeError">>
  ELSE IF isnan(x) \/ x = Untracked \/ x = Inf THEN x
  ELSE IF Sign(x) < 0 THEN <<"ValueError">>
  ELSE IF IsSquare(x[1]) /\ IsSquare(x[2]) THEN Float(ISqrt(x[1]), ISqrt(x[2]))
  ELSE Untracked

\* sin, cos, tan: the value at 0 is `at0`
math_trig(x, at0) ==
  IF ~IsNumber(x) THEN <<"TypeError">>
  ELSE IF isnan(x) \/ x = Untracked THEN x
  ELSE IF isinf(x) THEN <<"ValueError">>
  ELSE IF IsZero(x) THEN at0
  ELSE Untracked

math_exp(x) ==
  IF ~IsNumber(x) THEN <<"TypeError">>
  ELSE IF isnan(x) \/ x = Untracked \/ x = Inf THEN x
  ELSE IF x = NegInf THEN Zero
  ELSE IF IsZero(x) THEN One
  ELSE Untracked

\* log and log10 of one argument
math_log(x) ==
  IF ~IsNumber(x) THEN <<"TypeError">>
  ELSE IF isnan(x) \/ x = Untracked \/ x = Inf THEN x
  ELSE IF Sign(x) <= 0 THEN <<"ValueError">>
  ELSE IF x = One THEN Zero
  ELSE Untracked

builtin_abs(x) ==
  IF x = Complex \/ x = Untracked THEN Untracked
  ELSE IF ~IsNumber(x) THEN <<"TypeError">>
  ELSE <<Abs(x[1]), x[2]>>

math_floor(x) ==
  IF ~IsNumber(x) THEN <<"TypeError">>
  ELSE IF isnan(x) THEN <<"ValueError">>
  ELSE IF isinf(x) THEN <<"OverflowError">>
  ELSE IF x = Untracked THEN Untracked
  ELSE Float(Floor(x), 1)

math_ceil(x) ==
  IF ~IsNumber(x) THEN <<"TypeError">>
  ELSE IF isnan(x) THEN <<"ValueError">>
  ELSE IF isinf(x) THEN <<"OverflowError">>
  ELSE IF x = Untracked THEN Untracked
  ELSE Float(-Floor(float_neg(x)), 1)

\* float(result) at the end of safe_eval_math
float(x) == IF IsNumber(x) THEN x ELSE <<"TypeError">>

(* ---- utils/safe_eval.py ---------------------------------------------- *)

\* A syntax tree, as ast.parse(expr, mode="eval") builds it, is a tuple:
\*   <<"Constant", type, n, d>>   a literal; <<n, d>> is the value of a number
\*   <<"Name", id>>
\*   <<"BinOp", op, left, right>>
\*   <<"UnaryOp", op, operand>>
\*   <<"Call", func, args, keywords>>   args, keywords: sequences of trees
\*   <<"Attribute", value, attr>>
\*   <<"Subscript", value, slice>>
\*   <<"Compare", left, right>>
\*   <<"ListComp">>
\* and <<"SyntaxError">> stands for a text that ast.parse rejects.
ALLOWED_FUNCTIONS ==
  {"sqrt", "sin", "cos", "tan", "exp", "log", "log10", "abs", "ceil", "floor"}
ALLOWED_CONSTANTS == {"pi", "e"}
ALLOWED_BINARY_OPS == {"Add", "Sub", "Mult", "Div", "FloorDiv", "Mod", "Pow"}
ALLOWED_UNARY_OPS == {"UAdd", "USub"}

\* math.pi and math.e, to six digits
math_pi == Float(355, 113)
math_e == Float(193, 71)

\* the lambdas of ALLOWED_BINARY_OPS (and Python's operators) on two values
binary_op(op, l, r) ==
  IF ~(IsNumber(l) \/ l = Complex) \/ ~(IsNumber(r) \/ r = Complex)
  THEN <<"TypeError">>
  ELSE IF l = Complex \/ r = Complex
  THEN (IF op \in {"FloorDiv", "Mod"} THEN <<"TypeError">>
        ELSE IF op = "Div" /\ IsZero(r) THEN <<"ZeroDivisionError">>
        ELSE Complex)
  ELSE CASE op = "Add" -> float_add(l, r)
         [] op = "Sub" -> float_sub(l, r)
         [] op = "Mult" -> float_mul(l, r)
         [] op = "Div" -> float_truediv(l, r)
         [] op = "FloorDiv" -> float_floordiv(l, r)
         [] op = "Mod" -> float_mod(l, r)
         [] op = "Pow" -> float_pow(l, r)
         [] OTHER -> <<"TypeError">>

\* the lambdas of ALLOWED_UNARY_OPS
unary_op(op, x) ==
  IF x = Complex THEN Complex
  ELSE IF ~IsNumber(x) THEN <<"TypeError">>
  ELSE IF op = "USub" THEN float_neg(x)
  ELSE x

\* func(*args) for a function of ALLOWED_FUNCTIONS
call_function(name, args) ==
  IF name = "log" /\ Len(args) = 2
  THEN (IF ~IsNumber(args[1]) \/ ~IsNumber(args[2]) THEN <<"TypeError">>
        ELSE IF isnan(args[1]) \/ isnan(args[2]) THEN NaN
        ELSE IF IsFloat(args[1]) /\ Sign(args[1]) <= 0 THEN <<"ValueError">>
        ELSE IF IsFloat(args[2]) /\ Sign(args[2]) <= 0 THEN <<"ValueError">>
        ELSE IF args[2] = One THEN <<"ZeroDivisionError">>
        ELSE Untracked)
  ELSE IF Len(args) # 1 THEN <<"TypeError">>
  ELSE CASE name = "sqrt" -> math_sqrt(args[1])
         [] name = "sin" -> math_trig(args[1], Zero)
         [] name = "cos" -> math_trig(args[1], One)
         [] name = "tan" -> math_trig(args[1], Zero)
         [] name = "exp" -> math_exp(args[1])
         [] name = "log" -> math_log(args[1])
         [] name = "log10" -> math_log(args[1])
         [] name = "abs" -> builtin_abs(args[1])
         [] name = "ceil" -> math_ceil(args[1])
         [] name = "floor" -> math_floor(args[1])

\* The outcome of visiting a node: the value it returned or the exception
\* it raised, and the functions called on the way.
Visited(v, fs) == [v |-> v, called |-> fs]

RECURSIVE visit(_)
RECURSIVE visit_args(_)

visit_Constant(node) ==
  IF node[2] \in {"int", "float", "bool"}
  THEN Visited(<<node[3], node[4]>>, {})
  ELSE Visited(<<"ValueError">>, {})

\* visit_Name without the allow-list: every name gets a value.
visit_Name_any(node) ==
  IF node[2] = "e" THEN Visited(math_e, {}) ELSE Visited(math_pi, {})

visit_Name(node) ==
  IF node[2] \in ALLOWED_CONSTANTS
  THEN Visited(IF node[2] = "pi" THEN math_pi ELSE math_e, {})
  ELSE Visited(<<"ValueError">>, {})

visit_BinOp(node) ==
  IF node[2] \notin ALLOWED_BINARY_OPS THEN Visited(<<"ValueError">>, {})
  ELSE LET left == visit(node[3])
       IN  IF IsRaise(left.v) THEN left
           ELSE LET right == visit(node[4])
                    fs == left.called \cup right.called
                IN  IF IsRaise(right.v) THEN Visited(right.v, fs)
                    ELSE Visited(binary_op(node[2], left.v, right.v), fs)

visit_UnaryOp(node) ==
  IF node[2] \notin ALLOWED_UNARY_OPS THEN Visited(<<"ValueError">>, {})
  ELSE LET operand == visit(node[3])
       IN  IF IsRaise(operand.v) THEN operand
           ELSE Visited(unary_op(node[2], operand.v), operand.called)

\* [self.visit(arg) for arg in node.args]: the values `vs`, or in `v` the
\* first exception raised (None if there was none)
ArgsVisited(e, vs, fs) == [v |-> e, vs |-> vs, called |-> fs]

visit_args(args) ==
  IF args = << >> THEN ArgsVisited(None, << >>, {})
  ELSE LET first == visit(Head(args))
       IN  IF IsRaise(first.v) THEN ArgsVisited(first.v, << >>, first.called)
           ELSE LET rest == visit_args(Tail(args))
                IN  ArgsVisited(rest.v, <<first.v>> \o rest.vs,
                                first.called \cup rest.called)

visit_Call(node) ==
  IF node[2][1] # "Name" THEN Visited(<<"ValueError">>, {})
  ELSE IF node[2][2] \notin ALLOWED_FUNCTIONS THEN Visited(<<"ValueError">>, {})
  ELSE LET args == visit_args(node[3])
       IN  IF args.v # None THEN Visited(args.v, args.called)
           ELSE IF node[4] # << >> THEN Visited(<<"ValueError">>, args.called)
           ELSE Visited(call_function(node[2][2], args.vs),
                        args.called \cup {node[2][2]})

generic_visit(node) == Visited(<<"ValueError">>, {})

\* ast.NodeVisitor.visit: dispatch on the class of the node
visit(node) ==
  CASE node[1] = "Constant" -> visit_Constant(node)
    [] node[1] = "Name" -> visit_Name(node)
    [] node[1] = "BinOp" -> visit_BinOp(node)
    [] node[1] = "UnaryOp" -> visit_UnaryOp(node)
    [] node[1] = "Call" -> visit_Call(node)
    [] OTHER -> generic_visit(node)

\* safe_eval_math on the tree of its text: parse, visit, float(), and
\* `except Exception: return float("nan")` around all three.
safe_eval_math(tree) ==
  IF tree = <<"SyntaxError">> THEN Visited(NaN, {})
  ELSE LET r == visit(tree)
           f == IF IsRaise(r.v) THEN r.v ELSE float(r.v)
       IN  IF IsRaise(f) /\ f[1] \in ExceptionNames THEN Visited(NaN, r.called)
           ELSE Visited(f, r.called)

\* the call safe_eval_math(expr) by some caller
call_safe_eval_math ==
  /\ evaluator = "none"
  /\ LET r == safe_eval_math(expr)
     IN  /\ result' = (IF IsRaise(r.v) THEN None ELSE r.v)
         /\ raised' = IsRaise(r.v)
         /\ called' = r.called
  /\ evaluator' = "safe_eval_math"
  /\ UNCHANGED expr

(* ---- text ------------------------------------------------------------ *)

\* A text is a sequence of tokens <<kind, text, n, d>>:
\*   Tok(s)       the characters s (a word, a command name, a sign, a space)
\*   Num(ty,n,d)  a number literal of Python type ty with the value n/d
\*   Point(X,Y)   "(x,y)" as f"({x_val:.4f},{y_val:.4f})" prints it: X and Y
\*                count ten-thousandths
\*   Cut          the characters left of a word that a slice cut through
Tok(s) == <<"t", s, 0, 0>>
Num(ty, n, d) == <<"num", ty, n, d>>
Point(X, Y) == <<"point", "", X, Y>>
Cut(k) == <<"cut", "", k, 0>>
Space == Tok(" ")

\* str(x) of a float x: the sign and the literal of its magnitude
str(x) ==
  IF IsRational(x) /\ x[1] < 0 THEN <<Tok("-"), Num("float", -x[1], x[2])>>
  ELSE IF x = NegInf THEN <<Tok("-"), Tok("inf")>>
  ELSE IF x = Inf THEN <<Tok("inf")>>
  ELSE IF x = NaN THEN <<Tok("nan")>>
  ELSE <<Num("float", x[1], x[2])>>

(* ---- ast.parse(expr, mode="eval") ------------------------------------ *)

\* The grammar of Python expressions that the token alphabet can spell:
\*   sum     ::= term (("+" | "-") term)*
\*   term    ::= factor (("*" | "/" | "//" | "%") factor)*
\*   factor  ::= ("+" | "-") factor | power
\*   power   ::= primary ["**" factor]
\*   primary ::= atom ("(" [sum ("," sum)*] ")" | "." NAME)*
\*   atom    ::= NUMBER | NAME | "(" sum ")"
\* A parse is <<tree, rest>>; <<SyntaxError, << >> >> is a failed one.
SyntaxError == <<"SyntaxError">>
Failed == <<SyntaxError, << >> >>
BinaryOpOf(s) ==
  CASE s = "+" -> "Add" [] s = "-" -> "Sub" [] s = "*" -> "Mult"
    [] s = "/" -> "Div" [] s = "//" -> "FloorDiv" [] s = "%" -> "Mod"
    [] s = "**" -> "Pow"
IsT(toks, S) == toks # << >> /\ Head(toks)[1] = "t" /\ Head(toks)[2] \in S

\* spaces between tokens are skipped by the tokenizer
RECURSIVE Unspaced(_)
Unspaced(toks) ==
  IF toks = << >> THEN << >>
  ELSE IF Head(toks) = Space THEN Unspaced(Tail(toks))
  ELSE <<Head(toks)>> \o Unspaced(Tail(toks))

IsNameText(s) ==
  s \notin {"+", "-", "*", "/", "//", "%", "**", "^", "(", ")", ",", ".", "[", "]",
            "{", "}", ";", ":", "&", "<", ">", "\\x", "\\pi", "\\draw", " ",
            "domain=", "samples=", "...", "--", "amp;", "lt;", "gt;", "nbsp;"}

\* the parse that follows a parse r: Failed if r failed, otherwise what
\* `next` makes of the tree and the rest of r
Then(r, next(_, _)) == IF r = Failed THEN Failed ELSE next(r[1], r[2])

RECURSIVE parse_sum(_)
RECURSIVE parse_sum_rest(_, _)
RECURSIVE parse_term(_)
RECURSIVE parse_term_rest(_, _)
RECURSIVE parse_factor(_)
RECURSIVE parse_trailers(_, _)
RECURSIVE parse_args(_, _)

closing(tree, toks) == IF IsT(toks, {")"}) THEN <<tree, Tail(toks)>> ELSE Failed

parse_atom(toks) ==
  IF toks = << >> THEN Failed
  ELSE IF Head(toks)[1] = "num"
       THEN <<(<<"Constant", Head(toks)[2], Head(toks)[3], Head(toks)[4]>>), Tail(toks)>>
  ELSE IF Head(toks)[1] # "t" THEN Failed
  ELSE IF Head(toks)[2] = "(" THEN Then(parse_sum(Tail(toks)), closing)
  ELSE IF IsNameText(Head(toks)[2]) THEN <<(<<"Name", Head(toks)[2]>>), Tail(toks)>>
  ELSE Failed

\* the arguments of a call, after its "(": <<sequence of trees, rest>>
parse_args(acc, toks) ==
  IF IsT(toks, {")"}) /\ acc = << >> THEN <<acc, Tail(toks)>>
  ELSE Then(parse_sum(toks),
            LAMBDA tree, rest :
              IF IsT(rest, {")"}) THEN <<acc \o <<tree>>, Tail(rest)>>
              ELSE IF IsT(rest, {","}) THEN parse_args(acc \o <<tree>>, Tail(rest))
              ELSE Failed)

parse_trailers(f, toks) ==
  IF IsT(toks, {"("})
  THEN Then(parse_args(<< >>, Tail(toks)),
            LAMBDA args, rest : parse_trailers(<<"Call", f, args, << >> >>, rest))
  ELSE IF IsT(toks, {"."})
  THEN (IF IsT(Tail(toks), {toks[2][2]}) /\ IsNameText(toks[2][2])
        THEN parse_trailers(<<"Attribute", f, toks[2][2]>>, SubSeq(toks, 3, Len(toks)))
        ELSE Failed)
  ELSE <<f, toks>>

parse_primary(toks) == Then(parse_atom(toks), parse_trailers)

parse_power(toks) ==
  Then(parse_primary(toks),
       LAMBDA base, rest :
         IF IsT(rest, {"**"})
         THEN Then(parse_factor(Tail(rest)),
                   LAMBDA exponent, after : <<(<<"BinOp", "Pow", base, exponent>>), after>>)
         ELSE <<base, rest>>)

parse_factor(toks) ==
  IF IsT(toks, {"+", "-"})
  THEN Then(parse_factor(Tail(toks)),
            LAMBDA operand, rest :
              <<(<<"UnaryOp", IF Head(toks)[2] = "-" THEN "USub" ELSE "UAdd", operand>>),
                rest>>)
  ELSE parse_power(toks)

parse_term_rest(left, toks) ==
  IF IsT(toks, {"*", "/", "//", "%"})
  THEN Then(parse_factor(Tail(toks)),
            LAMBDA right, rest :
              parse_term_rest(<<"BinOp", BinaryOpOf(Head(toks)[2]), left, right>>, rest))
  ELSE <<left, toks>>

parse_term(toks) == Then(parse_factor(toks), parse_term_rest)

parse_sum_rest(left, toks) ==
  IF IsT(toks, {"+", "-"})
  THEN Then(parse_term(Tail(toks)),
            LAMBDA right, rest :
              parse_sum_rest(<<"BinOp", BinaryOpOf(Head(toks)[2]), left, right>>, rest))
  ELSE <<left, toks>>

parse_sum(toks) == Then(parse_term(toks), parse_sum_rest)

\* ast.parse(text, mode="eval"): a text that starts with a blank is an
\* "unexpected indent"; the whole text has to be one expression.
ast_parse(toks) ==
  IF toks = << >> \/ Head(toks) = Space THEN SyntaxError
  ELSE Then(parse_sum(Unspaced(toks)),
            LAMBDA tree, rest : IF rest = << >> THEN <<tree>> ELSE Failed)[1]

(* ---- the two evaluations of a plot expression ------------------------ *)

\* expr.replace("\\x", str(x))
RECURSIVE replace_x(_, _)
replace_x(toks, x) ==
  IF toks = << >> THEN << >>
  ELSE IF Head(toks) = Tok("\\x") THEN str(x) \o replace_x(Tail(toks), x)
  ELSE <<Head(toks)>> \o replace_x(Tail(toks), x)

\* re.sub(word, repl, expr) for a pattern that is one word
RECURSIVE sub_word(_, _, _)
sub_word(toks, word, repl) ==
  IF toks = << >> THEN << >>
  ELSE IF Head(toks) = Tok(word) THEN repl \o sub_word(Tail(toks), word, repl)
  ELSE <<Head(toks)>> \o sub_word(Tail(toks), word, repl)

RECURSIVE SkipSpaces(_)
SkipSpaces(toks) ==
  IF toks # << >> /\ Head(toks) = Space THEN SkipSpaces(Tail(toks)) ELSE toks

\* re.sub(name\s*\(, repl + "(", expr): the name of a call, with the blanks
\* before its parenthesis
RECURSIVE sub_call(_, _, _)
sub_call(toks, name, repl) ==
  IF toks = << >> THEN << >>
  ELSE IF Head(toks) = Tok(name) /\ IsT(SkipSpaces(Tail(toks)), {"("})
       THEN repl \o sub_call(SkipSpaces(Tail(toks)), name, repl)
  ELSE <<Head(toks)>> \o sub_call(Tail(toks), name, repl)

\* the replacements list of TikzPlotConverter._eval_tikz_expr, in its order
converter_replacements(e0) ==
  LET e1 == sub_word(e0, "\\pi", str(math_pi))
      e2 == sub_word(e1, "pi", str(math_pi))
      e3 == sub_call(e2, "sqrt", <<Tok("sqrt")>>)
      e4 == sub_call(e3, "sin", <<Tok("sin")>>)
      e5 == sub_call(e4, "cos", <<Tok("cos")>>)
      e6 == sub_call(e5, "tan", <<Tok("tan")>>)
      e7 == sub_call(e6, "exp", <<Tok("exp")>>)
      e8 == sub_call(e7, "log", <<Tok("log10")>>)
      e9 == sub_call(e8, "ln", <<Tok("log")>>)
      e10 == sub_call(e9, "abs", <<Tok("abs")>>)
  IN  sub_word(e10, "^", <<Tok("**")>>)

Math(f) == <<Tok("math"), Tok("."), Tok(f)>>

\* the re.sub calls of the plugin's eval_tikz_expr, in their order: the
\* "math.log(" written for ln( is rewritten again by the rule for log(
plugin_replacements(e0) ==
  LET e1 == sub_call(e0, "sqrt", Math("sqrt"))
      e2 == sub_call(e1, "sin", Math("sin"))
      e3 == sub_call(e2, "cos", Math("cos"))
      e4 == sub_call(e3, "tan", Math("tan"))
      e5 == sub_call(e4, "exp", Math("exp"))
      e6 == sub_call(e5, "ln", Math("log"))
      e7 == sub_call(e6, "log", Math("log10"))
      e8 == sub_call(e7, "abs", <<Tok("abs")>>)
      e9 == sub_word(e8, "^", <<Tok("**")>>)
      \* \bpi\b also matches the letters of "\pi" and leaves its backslash
      e10 == sub_word(sub_word(e9, "pi", str(math_pi)),
                      "\\pi", <<Tok("\\")>> \o str(math_pi))
  IN  sub_word(e10, "\\pi", str(math_pi))

\* Names that eval() in main.py can resolve, among those the token alphabet
\* spells: the module `math` imported at main.py:5 and two builtins.
PluginNames == {"math", "abs", "exit"}
MathFunctions == ALLOWED_FUNCTIONS \ {"abs"}

RECURSIVE py_eval(_)
RECURSIVE py_eval_args(_)

py_eval_args(args) ==
  IF args = << >> THEN ArgsVisited(None, << >>, {})
  ELSE LET first == py_eval(Head(args))
       IN  IF IsRaise(first.v) THEN ArgsVisited(first.v, << >>, first.called)
           ELSE LET rest == py_eval_args(Tail(args))
                IN  ArgsVisited(rest.v, <<first.v>> \o rest.vs,
                                first.called \cup rest.called)

\* Python's evaluation of the tree: every name of the namespace resolves,
\* every callable is called.
py_eval(node) ==
  CASE node[1] = "Constant" ->
         Visited(IF node[2] \in {"int", "float", "bool"} THEN <<node[3], node[4]>>
                 ELSE <<node[2]>>, {})
    [] node[1] = "Name" ->
         Visited(IF node[2] \in PluginNames THEN <<node[2]>> ELSE <<"NameError">>, {})
    [] node[1] = "Attribute" ->
         LET value == py_eval(node[2])
         IN  IF IsRaise(value.v) THEN value
             ELSE IF value.v = <<"math">> /\ node[3] \in MathFunctions
                  THEN Visited(<<node[3]>>, value.called)
             ELSE IF value.v = <<"math">> /\ node[3] \in {"pi", "e"}
                  THEN Visited(IF node[3] = "pi" THEN math_pi ELSE math_e, value.called)
             ELSE Visited(<<"AttributeError">>, value.called)
    [] node[1] = "BinOp" ->
         LET left == py_eval(node[3])
         IN  IF IsRaise(left.v) THEN left
             ELSE LET right == py_eval(node[4])
                      fs == left.called \cup right.called
                  IN  IF IsRaise(right.v) THEN Visited(right.v, fs)
                      ELSE Visited(binary_op(node[2], left.v, right.v), fs)
    [] node[1] = "UnaryOp" ->
         LET operand == py_eval(node[3])
         IN  IF IsRaise(operand.v) THEN operand
             ELSE Visited(unary_op(node[2], operand.v), operand.called)
    [] node[1] = "Call" ->
         LET func == py_eval(node[2])
         IN  IF IsRaise(func.v) THEN func
             ELSE LET args == py_eval_args(node[3])
                      fs == func.called \cup args.called
                  IN  IF args.v # None THEN Visited(args.v, fs)
                      ELSE IF func.v = <<"exit">>
                           THEN Visited(<<"SystemExit">>, fs \cup {"exit"})
                      ELSE IF Len(func.v) = 1 /\ func.v[1] \in ALLOWED_FUNCTIONS
                           THEN Visited(call_function(func.v[1], args.vs),
                                        fs \cup {func.v[1]})
                      ELSE Visited(<<"TypeError">>, fs)
    [] OTHER -> Visited(<<"TypeError">>, {})

\* eval(expr) of main.py:251 under `except Exception: return float('nan')`
plugin_eval(tree) ==
  IF tree = SyntaxError THEN Visited(NaN, {})
  ELSE LET r == py_eval(tree)
       IN  IF IsRaise(r.v) /\ r.v[1] \in ExceptionNames THEN Visited(NaN, r.called)
           ELSE r

\* _eval_tikz_expr(expr, x) of the converter ("TikzPlotConverter") and
\* eval_tikz_expr(expr, x) of the plugin ("plugin")
eval_tikz_expr(path, e, x) ==
  IF path = "plugin" THEN plugin_eval(ast_parse(plugin_replacements(replace_x(e, x))))
  ELSE safe_eval_math(ast_parse(converter_replacements(replace_x(e, x))))

(* ---- the regular expressions of the converters ------------------------ *)

\* A pattern is a sequence of elements, matched one after the other at the
\* head of a text:
\*   Lit(s)       the token s
\*   Opt(s)       s?
\*   Blanks       \s*
\*   Except(s)    ([^s]*), a group
\*   Except1(s)   ([^s]+), a group
\*   Numbers      ([-\d.]+), a group
\*   Digits       (\d+), a group
\* No class holds the sign that follows its group, so a group runs to the
\* first such sign and nothing is tried again, but for a group of one or
\* more that finds nothing after blanks: it takes the last of the blanks.
Lit(s) == <<"lit", s>>
Opt(s) == <<"opt", s>>
Blanks == <<"blanks", "">>
Except(s) == <<"except", s>>
Except1(s) == <<"except1", s>>
Numbers == <<"numbers", "">>
Digits == <<"digits", "">>

NoMatch == [ok |-> FALSE, rest |-> << >>, groups |-> << >>, blanks |-> 0, whole |-> << >>]
Matched(rest, groups, blanks) ==
  [ok |-> TRUE, rest |-> rest, groups |-> groups, blanks |-> blanks, whole |-> << >>]

Drop(toks, n) == SubSeq(toks, n + 1, Len(toks))
IsPoint(tok) == tok[1] = "point"

\* the number of tokens at the head of the text that are not the sign s;
\* a point holds a comma
RunExcept(toks, s) ==
  LET at == {i \in 1 .. Len(toks) : toks[i] = Tok(s) \/ (s = "," /\ IsPoint(toks[i]))}
  IN  IF at = {} THEN Len(toks) ELSE (CHOOSE i \in at : \A j \in at : i <= j) - 1

\* the number of tokens at the head of the text that are of the class [-\d.]
RunNumbers(toks) ==
  LET at == {i \in 1 .. Len(toks) :
               ~(toks[i][1] = "num" \/ toks[i] \in {Tok("-"), Tok(".")})}
  IN  IF at = {} THEN Len(toks) ELSE (CHOOSE i \in at : \A j \in at : i <= j) - 1

\* a group of n tokens taken from the head of the text
Group(st, n) == Matched(Drop(st.rest, n), Append(st.groups, SubSeq(st.rest, 1, n)), 0)

match_element(el, st) ==
  CASE el[1] = "lit" ->
         IF IsT(st.rest, {el[2]}) THEN Matched(Tail(st.rest), st.groups, 0) ELSE NoMatch
    [] el[1] = "opt" ->
         IF IsT(st.rest, {el[2]}) THEN Matched(Tail(st.rest), st.groups, 0) ELSE st
    [] el[1] = "blanks" ->
         Matched(SkipSpaces(st.rest), st.groups, Len(st.rest) - Len(SkipSpaces(st.rest)))
    [] el[1] = "except" -> Group(st, RunExcept(st.rest, el[2]))
    [] el[1] = "except1" ->
         IF RunExcept(st.rest, el[2]) > 0 THEN Group(st, RunExcept(st.rest, el[2]))
         ELSE IF st.blanks > 0 THEN Matched(st.rest, Append(st.groups, <<Space>>), 0)
         ELSE NoMatch
    [] el[1] = "numbers" ->
         IF RunNumbers(st.rest) > 0 THEN Group(st, RunNumbers(st.rest)) ELSE NoMatch
    [] el[1] = "digits" ->
         IF st.rest # << >> /\ Head(st.rest)[1] = "num" THEN Group(st, 1) ELSE NoMatch

RECURSIVE match_from(_, _, _)
match_from(pattern, k, st) ==
  IF k > Len(pattern) \/ ~st.ok THEN st
  ELSE match_from(pattern, k + 1, match_element(pattern[k], st))

\* re.match(pattern, text); `whole` is the text matched, group(0)
whole_of(toks, m) ==
  IF m.ok THEN [m EXCEPT !.whole = SubSeq(toks, 1, Len(toks) - Len(m.rest))] ELSE m
re_match(pattern, toks) ==
  whole_of(toks, match_from(pattern, 1, Matched(toks, << >>, 0)))

\* re.search(pattern, text): the match at the first place that has one
re_search(pattern, toks) ==
  LET at == {i \in 1 .. Len(toks) : re_match(pattern, Drop(toks, i - 1)).ok}
  IN  IF at = {} THEN NoMatch
      ELSE re_match(pattern, Drop(toks, (CHOOSE i \in at : \A j \in at : i <= j) - 1))

\* re.sub(pattern, "", text)
RECURSIVE re_sub_empty(_, _)
sub_empty_at(pattern, toks, m) ==
  IF m.ok THEN re_sub_empty(pattern, m.rest)
  ELSE <<Head(toks)>> \o re_sub_empty(pattern, Tail(toks))
re_sub_empty(pattern, toks) ==
  IF toks = << >> THEN << >> ELSE sub_empty_at(pattern, toks, re_match(pattern, toks))

(* ---- infrastructure/converter/tikz_plot_converter.py ------------------ *)

DefaultSamples == 50   \* _parse_samples: `else 50`
PrefixLength == 30     \* _convert_plot_cmd: full_match[:30]

\* \\draw\s*\[([^\]]*)\]\s*plot\s*\(\s*([^,]+)\s*,\s*\{([^}]+)\}\s*\)\s*;
PlotPattern ==
  <<Lit("\\draw"), Blanks, Lit("["), Except("]"), Lit("]"), Blanks, Lit("plot"),
    Blanks, Lit("("), Blanks, Except1(","), Blanks, Lit(","), Blanks, Lit("{"),
    Except1("}"), Lit("}"), Blanks, Lit(")"), Blanks, Lit(";")>>
\* domain\s*=\s*([-\d.]+)\s*:\s*([-\d.]+)
DomainPattern == <<Lit("domain="), Blanks, Numbers, Blanks, Lit(":"), Blanks, Numbers>>
\* samples\s*=\s*(\d+)
SamplesPattern == <<Lit("samples="), Blanks, Digits>>

\* _clean_html_entities: text.replace("&" + name, new); the two tokens of
\* an entity become the one token `new`
Gone == <<"gone", "", 0, 0>>
replace_entity(toks, name, new) ==
  LET at(i) == i >= 1 /\ i < Len(toks) /\ toks[i] = Tok("&") /\ toks[i + 1] = Tok(name)
  IN  SelectSeq([i \in 1 .. Len(toks) |->
                   IF at(i) THEN Tok(new) ELSE IF at(i - 1) THEN Gone ELSE toks[i]],
                LAMBDA t : t # Gone)

clean_html_entities(text) ==
  replace_entity(replace_entity(replace_entity(replace_entity(
    text, "nbsp;", " "), "amp;", "&"), "lt;", "<"), "gt;", ">")

\* float(text) of a run of the class [-\d.]
float_of(run) ==
  IF Len(run) = 1 /\ run[1][1] = "num" THEN Float(run[1][3], run[1][4])
  ELSE IF Len(run) = 2 /\ run[1] = Tok("-") /\ run[2][1] = "num"
       THEN Float(-run[2][3], run[2][4])
  ELSE <<"ValueError">>

\* _parse_domain: None, or <<x_min, x_max>>, either of which may be the
\* ValueError of float()
domain_of(m) ==
  IF m.ok THEN <<float_of(m.groups[1]), float_of(m.groups[2])>> ELSE None
parse_domain(options) == domain_of(re_search(DomainPattern, options))

\* _parse_samples
samples_of(m) ==
  IF m.ok THEN Floor(<<m.groups[1][1][3], m.groups[1][1][4]>>) ELSE DefaultSamples
parse_samples(options) == samples_of(re_search(SamplesPattern, options))

\* str.strip(" ,")
RECURSIVE lstrip(_)
lstrip(toks) ==
  IF toks # << >> /\ Head(toks) \in {Space, Tok(",")} THEN lstrip(Tail(toks)) ELSE toks
RECURSIVE rstrip(_)
rstrip(toks) ==
  IF toks # << >> /\ toks[Len(toks)] \in {Space, Tok(",")}
  THEN rstrip(SubSeq(toks, 1, Len(toks) - 1)) ELSE toks

\* _extract_style_options
extract_style_options(options) ==
  lstrip(rstrip(re_sub_empty(<<Opt(","), Blanks>> \o SamplesPattern,
                             re_sub_empty(<<Opt(","), Blanks>> \o DomainPattern,
                                          options))))

\* f"{v:.4f}" as the number of ten-thousandths nearest to v
Round4(v) ==
  LET q == (v[1] * 10000) \div v[2]
      r == (v[1] * 10000) % v[2]
  IN  IF 2 * r > v[2] \/ (2 * r = v[2] /\ q % 2 = 1) THEN q + 1 ELSE q

\* f"({x_val:.4f},{y_val:.4f})"; a coordinate whose value is not followed
\* is marked in the second field
format_point(x_val, y_val) ==
  <<"point",
    IF x_val = Untracked /\ y_val = Untracked THEN "xy"
    ELSE IF x_val = Untracked THEN "x" ELSE IF y_val = Untracked THEN "y" ELSE "",
    IF x_val = Untracked THEN 0 ELSE Round4(x_val),
    IF y_val = Untracked THEN 0 ELSE Round4(y_val)>>

\* the test of _generate_points without its two isinf() calls
keeps_point_nan_only(x_val, y_val) ==
  IF ~IsNumber(x_val) THEN "TypeError"
  ELSE IF isnan(x_val) THEN "no"
  ELSE IF ~IsNumber(y_val) THEN "TypeError"
  ELSE IF isnan(y_val) THEN "no" ELSE "yes"

\* the test of _generate_points, with the short circuit of `or`: "yes",
\* "no", or the TypeError of isnan() and isinf() for what is not a float
keeps_point(x_val, y_val) ==
  IF ~IsNumber(x_val) THEN "TypeError"
  ELSE IF isnan(x_val) THEN "no"
  ELSE IF ~IsNumber(y_val) THEN "TypeError"
  ELSE IF isnan(y_val) \/ isinf(x_val) \/ isinf(y_val) THEN "no" ELSE "yes"

\* the step with the divisor samples instead of samples - 1
step_of_open(x_min, x_max, samples) ==
  IF samples > 1 THEN float_truediv(float_sub(x_max, x_min), Float(samples, 1))
  ELSE Zero

step_of(x_min, x_max, samples) ==
  IF samples > 1 THEN float_truediv(float_sub(x_max, x_min), Float(samples - 1, 1))
  ELSE Zero

\* one turn of the loop of _generate_points, given the two evaluations
turn_of(x, xr, yr) ==
  IF IsRaise(xr.v)
  THEN [x |-> x, x_val |-> xr.v, y_val |-> None, called |-> xr.called,
        keep |-> "raise", exc |-> xr.v]
  ELSE IF IsRaise(yr.v)
  THEN [x |-> x, x_val |-> xr.v, y_val |-> yr.v, called |-> xr.called \cup yr.called,
        keep |-> "raise", exc |-> yr.v]
  ELSE [x |-> x, x_val |-> xr.v, y_val |-> yr.v, called |-> xr.called \cup yr.called,
        keep |-> keeps_point(xr.v, yr.v),
        exc |-> IF keeps_point(xr.v, yr.v) = "TypeError" THEN <<"TypeError">> ELSE None]

turn_at(path, x, x_expr, y_expr) ==
  turn_of(x, eval_tikz_expr(path, x_expr, x), eval_tikz_expr(path, y_expr, x))

Generated(points, samples, fs, e) ==
  [points |-> points, samples |-> samples, called |-> fs, exc |-> e]

\* what the loop leaves, given its turns up to the first that raises:
\* `samples` lists <<x, x_val, y_val>> of the turns that ended
generated_by(turns) ==
  IF turns # << >> /\ turns[Len(turns)].exc # None
  THEN Generated(<< >>, << >>, UNION {turns[j].called : j \in 1 .. Len(turns)},
                 turns[Len(turns)].exc)
  ELSE Generated([j \in 1 .. Len(SelectSeq(turns, LAMBDA t : t.keep = "yes")) |->
                    format_point(SelectSeq(turns, LAMBDA t : t.keep = "yes")[j].x_val,
                                 SelectSeq(turns, LAMBDA t : t.keep = "yes")[j].y_val)],
                 [j \in 1 .. Len(turns) |-> <<turns[j].x, turns[j].x_val, turns[j].y_val>>],
                 UNION {turns[j].called : j \in 1 .. Len(turns)},
                 None)

\* the turns up to the first that raises
until_raise(turns) ==
  LET at == {i \in 1 .. Len(turns) : turns[i].exc # None}
  IN  IF at = {} THEN turns
      ELSE SubSeq(turns, 1, CHOOSE i \in at : \A j \in at : i <= j)

\* the turns for i in range(samples), with x = x_min + i * step
turns_of(path, x_min, step, samples, x_expr, y_expr) ==
  SubSeq([i \in 1 .. samples |->
            turn_at(path, float_add(x_min, float_mul(Float(i - 1, 1), step)),
                    x_expr, y_expr)],
         1, samples)

\* _generate_points
generate_points(path, x_min, x_max, samples, x_expr, y_expr) ==
  generated_by(until_raise(turns_of(path, x_min, step_of(x_min, x_max, samples),
                                    samples, x_expr, y_expr)))

\* len() of the text of a token; a number is counted as written with its
\* integer digits, and one decimal when it is a float
RECURSIVE DigitCount(_)
DigitCount(n) == IF n < 10 THEN 1 ELSE 1 + DigitCount(n \div 10)
Fixed4Len(X) == DigitCount(Abs(X) \div 10000) + 5 + (IF X < 0 THEN 1 ELSE 0)
TokLen(tok) ==
  CASE tok[1] = "t" -> Len(tok[2])
    [] tok[1] = "num" ->
         DigitCount(tok[3] \div tok[4]) + (IF tok[2] = "float" THEN 2 ELSE 0)
    [] tok[1] = "point" -> 3 + Fixed4Len(tok[3]) + Fixed4Len(tok[4])
    [] OTHER -> tok[3]

\* text[:n]
RECURSIVE Slice(_, _)
Slice(toks, n) ==
  IF toks = << >> \/ n = 0 THEN << >>
  ELSE IF TokLen(Head(toks)) <= n
       THEN <<Head(toks)>> \o Slice(Tail(toks), n - TokLen(Head(toks)))
  ELSE <<Cut(n)>>

\* " -- ".join(points)
join(points) ==
  [i \in 1 .. 2 * Len(points) - 1 |->
     IF i % 2 = 1 THEN points[(i + 1) \div 2] ELSE Tok(" -- ")]

\* the words of the comment written for a plot without points (Chinese in
\* the source, with a blank after "plot" in the plugin's copy)
failure_comment(path) ==
  IF path = "plugin" THEN Tok("% plot conversion failed: ")
  ELSE Tok("% plot-conversion failed: ")

\* the \draw command written whether or not there are points
plot_output_draw_only(path, full_match, style_options, points) ==
  <<Tok("\\draw"), Tok("[")>> \o style_options \o <<Tok("]"), Space>>
    \o join(points) \o <<Tok(";")>>

\* what _convert_plot_cmd returns for a plot with a domain, given its points
plot_output(path, full_match, style_options, points) ==
  IF points = << >>
  THEN <<failure_comment(path)>> \o Slice(full_match, PrefixLength) \o <<Tok("...")>>
  ELSE <<Tok("\\draw"), Tok("[")>> \o style_options \o <<Tok("]"), Space>>
         \o join(points) \o <<Tok(";")>>

Converted(text, samples, fs, e) ==
  [text |-> text, samples |-> samples, called |-> fs, exc |-> e]

plot_of(path, full_match, options, g) ==
  Converted(plot_output(path, full_match, extract_style_options(options), g.points),
            <<g.samples>>, g.called, g.exc)

plot_over(path, full_match, groups, domain) ==
  IF domain = None THEN Converted(full_match, << >>, {}, None)
  ELSE IF IsRaise(domain[1]) THEN Converted(<< >>, << >>, {}, domain[1])
  ELSE IF IsRaise(domain[2]) THEN Converted(<< >>, << >>, {}, domain[2])
  ELSE plot_of(path, full_match, groups[1],
               generate_points(path, domain[1], domain[2], parse_samples(groups[1]),
                               groups[2], groups[3]))

\* _convert_plot_cmd (and convert_plot_cmd of the plugin) on one match:
\* the text matched and its three groups
convert_plot_cmd(path, full_match, groups) ==
  plot_over(path, full_match, groups, parse_domain(groups[1]))

\* re.sub(pattern, _convert_plot_cmd, text): the matches from left to
\* right, none overlapping; an exception of the callback ends the call
RECURSIVE sub_plot(_, _)
sub_plot_after(before, c, rest) ==
  Converted(before \o c.text \o rest.text, c.samples \o rest.samples,
            c.called \cup rest.called, rest.exc)
sub_plot_with(path, before, c, rest) ==
  IF c.exc # None THEN c ELSE sub_plot_after(before, c, sub_plot(path, rest))
sub_plot_at(path, toks, m) ==
  IF ~m.ok THEN Converted(toks, << >>, {}, None)
  ELSE sub_plot_with(path, SubSeq(toks, 1, Len(toks) - Len(m.rest) - Len(m.whole)),
                     convert_plot_cmd(path, m.whole, m.groups), m.rest)
sub_plot(path, toks) == sub_plot_at(path, toks, re_search(PlotPattern, toks))

\* TikzPlotConverter.convert and the plugin's _convert_tikz_plot
convert(path, text) == sub_plot(path, clean_html_entities(text))

\* what a first call leaves, given what convert made of the text
first_call(c, by) ==
  /\ outputs' = (IF c.exc = None THEN <<c.text>> ELSE << >>)
  /\ plots' = (IF c.exc = None THEN c.samples ELSE << >>)
  /\ called' = c.called
  /\ raised' = (c.exc # None)
  /\ evaluator' = by
  /\ UNCHANGED <<tikz_code, expr, result>>

second_call(c) ==
  /\ outputs' = (IF c.exc = None THEN <<outputs[1], c.text>> ELSE outputs)
  /\ called' = called \cup c.called
  /\ raised' = (c.exc # None)
  /\ UNCHANGED <<tikz_code, plots, evaluator, expr, result>>

\* TikzPlotConverter.convert(tikz_code), the first call
call_convert ==
  /\ evaluator = "none"
  /\ first_call(convert("TikzPlotConverter", tikz_code), "safe_eval_math")

\* TikzPlotConverter.convert on the text that the first call returned
call_convert_again ==
  /\ evaluator = "safe_eval_math"
  /\ Len(outputs) = 1
  /\ second_call(convert("TikzPlotConverter", outputs[1]))

\* MathJax2ImagePlugin._convert_tikz_plot(tikz_code)
call_convert_tikz_plot ==
  /\ evaluator = "none"
  /\ first_call(convert("plugin", tikz_code), "eval")

\* The texts given to the converters: one plot command with every
\* combination of a domain, a number of samples, a style and an expression;
\* plot commands that leave the number of samples out; and texts put
\* together from at most MaxPieces pieces.
MaxDomain == 1    \* domain=a:b with a and b in -MaxDomain .. MaxDomain
MaxSamples == 3   \* samples=N with N in 0 .. MaxSamples
MaxPieces == 2

IntText(n) == IF n < 0 THEN <<Tok("-"), Num("int", -n, 1)>> ELSE <<Num("int", n, 1)>>
DomainOption(a, b) == <<Tok("domain=")>> \o IntText(a) \o <<Tok(":")>> \o IntText(b)
SamplesOption(n) == <<Tok(","), Space, Tok("samples="), Num("int", n, 1)>>
PlotCommand(options, x, y) ==
  <<Tok("\\draw"), Tok("[")>> \o options
    \o <<Tok("]"), Space, Tok("plot"), Space, Tok("(")>> \o x
    \o <<Tok(","), Space, Tok("{")>> \o y \o <<Tok("}"), Tok(")"), Tok(";")>>
VarX == <<Tok("\\x")>>
Expressions ==
  {VarX,
   <<Tok("\\x"), Tok("^"), Num("int", 2, 1)>>,
   <<Num("int", 1, 1), Tok("/"), Tok("\\x")>>,
   <<Tok("sqrt"), Tok("("), Tok("\\x"), Tok(")")>>,
   <<Tok("("), Tok("\\x"), Tok(")"), Tok("^"), Num("float", 1, 2)>>,
   <<Space, Tok("\\x")>>,
   <<Tok("a")>>,
   <<Tok("exit"), Tok("("), Tok(")")>>}
Styles == {<< >>, <<Tok("red"), Tok(","), Space>>}
SampledPlots ==
  {PlotCommand(style \o DomainOption(a, b) \o SamplesOption(n), VarX, y) :
     style \in Styles, a \in -MaxDomain .. MaxDomain, b \in -MaxDomain .. MaxDomain,
     n \in 0 .. MaxSamples, y \in Expressions}
DefaultPlots ==
  {PlotCommand(DomainOption(0, 1), VarX, y) :
     y \in {VarX, <<Tok("\\x"), Tok("^"), Num("int", 2, 1)>>,
            <<Num("int", 1, 1), Tok("/"), Tok("\\x")>>}}
Pieces ==
  {PlotCommand(<<Tok("red")>>, VarX, VarX),
   PlotCommand(<<Tok("&"), Tok("lt;"), Tok("-"), Tok("&"), Tok("gt;")>>, VarX, VarX),
   PlotCommand(DomainOption(0, 1) \o SamplesOption(2), VarX, VarX),
   PlotCommand(DomainOption(0, 1) \o SamplesOption(2), VarX, <<Tok("a")>>),
   PlotCommand(<<Tok("domain="), Num("int", 1, 1), Tok("-"), Num("int", 2, 1),
                 Tok(":"), Num("int", 1, 1)>>, VarX, VarX),
   <<Tok("\\draw"), Tok("["), Tok("domain="), Num("int", 0, 1), Tok(":"),
     Num("int", 1, 1), Tok("]"), Tok("plot"), Tok("("), Tok("\\x"), Tok(","),
     Tok("{"), Tok("a"), Tok("}"), Tok(")"), Tok(";")>>,
   <<Tok("\\draw"), Tok("["), Tok("red"), Tok("]"), Space, Point(0, 0),
     Tok(" -- "), Point(10000, 10000), Tok(";")>>,
   <<Tok("&"), Tok("amp;")>>,
   <<Tok("amp;")>>,
   <<Tok("nbsp;")>>}
RECURSIVE Texts(_)
Texts(n) ==
  IF n = 0 THEN {<< >>}
  ELSE Texts(n - 1) \cup {t \o p : t \in Texts(n - 1), p \in Pieces}
PlotTexts == SampledPlots \cup DefaultPlots \cup Texts(MaxPieces)

(* ====================================================================== *)
(* The Document Assembler: MarkdownConverter.convert_to_html and the older
   MathJaxRenderer._convert_markdown_to_html, told apart by `by`.  A text
   is a sequence of tokens: words, blanks, line breaks, the escaped line
   break (a backslash and the letter n), fences, dollars, the bracket and
   parenthesis delimiters, heading and list markers. *)
Word(s) == <<"w", s, 0, 0>>              \* letters
NL == Tok("\n")                          \* a line break
Esc == Tok("\\n")                        \* backslash, n
Fence == <<"fence", "", 0, 0>>            \* three backticks
Tildes == Tok("~~~")
Dollar == Tok("$")
Hash == Tok("#")
Percent == Tok("%")
EndTikzpicture == Tok("\\end{tikzpicture}")
EndTikzcd == Tok("\\end{tikzcd}")
Placeholder(kind, i) == <<kind, "", i, 0>>   \* f"{kind}{i}{kind}"

RECURSIVE Concat(_)
Concat(parts) == IF parts = << >> THEN << >> ELSE Head(parts) \o Concat(Tail(parts))
MinOf(S) == CHOOSE i \in S : \A j \in S : i <= j
MaxOf(S) == CHOOSE i \in S : \A j \in S : i >= j
Has(text, tok) == \E i \in 1 .. Len(text) : text[i] = tok

\* _fix_tikz_comments: (%[^\n]*?)\\end\{...\} -> \1\n\\end{...}
commented(text, tag, j) ==
  \E i \in 1 .. j - 1 :
    text[i] = Percent /\ \A k \in i + 1 .. j - 1 : text[k] \notin {NL, tag}
fix_tag(text, tag) ==
  Concat([j \in 1 .. Len(text) |->
            IF text[j] = tag /\ commented(text, tag, j) THEN <<NL, tag>> ELSE <<text[j]>>])
fix_tikz_comments(text) == fix_tag(fix_tag(text, EndTikzpicture), EndTikzcd)

\* re.sub(r"\\n(?![a-zA-Z])", "\n", text); text.replace('\\n', '\n') in
\* the older copy
unescape(by, text) ==
  [i \in 1 .. Len(text) |->
     IF text[i] = Esc /\ (by = "MathJaxRenderer" \/ i = Len(text) \/ text[i + 1][1] # "w")
     THEN NL ELSE text[i]]

\* text.split("\n")
RECURSIVE split(_)
split_at(text, S) ==
  IF S = {} THEN <<text>>
  ELSE <<SubSeq(text, 1, MinOf(S) - 1)>> \o split(SubSeq(text, MinOf(S) + 1, Len(text)))
split(text) == split_at(text, {i \in 1 .. Len(text) : text[i] = NL})

\* str.strip()
strip_to(line, S) == IF S = {} THEN << >> ELSE SubSeq(line, MinOf(S), MaxOf(S))
strip(line) == strip_to(line, {i \in 1 .. Len(line) : line[i] # Space})

is_fence(line) == strip(line) # << >> /\ Head(strip(line)) \in {Fence, Tildes}
\* in_code_block when the loop reaches line k
in_code_block(lines, k) ==
  Cardinality({m \in 1 .. k - 1 : is_fence(lines[m])}) % 2 = 1
kept(lines, k) == is_fence(lines[k]) \/ in_code_block(lines, k)

\* the number of '#' a stripped line starts with
hashes(stripped) ==
  Cardinality({h \in 1 .. Len(stripped) : \A i \in 1 .. h : stripped[i] = Hash})
\* ^(#{1,6})([^#\s])
heading_match(stripped) ==
  /\ hashes(stripped) \in 1 .. 6
  /\ Len(stripped) > hashes(stripped)
  /\ stripped[hashes(stripped) + 1] # Space
fix_heading(stripped) ==
  IF heading_match(stripped)
  THEN SubSeq(stripped, 1, hashes(stripped)) \o <<Space>>
       \o SubSeq(stripped, hashes(stripped) + 1, Len(stripped))
  ELSE stripped
\* ^#{1,6}\s+
is_heading(stripped) ==
  /\ hashes(stripped) \in 1 .. 6
  /\ Len(stripped) > hashes(stripped)
  /\ stripped[hashes(stripped) + 1] = Space
\* ^[-*]\s+  or  ^\d+\.\s+
is_list_item(stripped) ==
  /\ Len(stripped) >= 2
  /\ stripped[1] \in {Tok("-"), Tok("*"), Tok("1.")}
  /\ stripped[2] = Space

\* the line as the loop appends it
appended(lines, k) ==
  IF kept(lines, k) \/ ~heading_match(strip(lines[k])) THEN lines[k]
  ELSE fix_heading(strip(lines[k]))
\* result.append("") before line k
blank_before(lines, k) ==
  /\ ~kept(lines, k)
  /\ k > 1
  /\ is_heading(fix_heading(strip(lines[k]))) \/ is_list_item(strip(lines[k]))
  /\ strip(appended(lines, k - 1)) # << >>
  /\ \/ is_heading(fix_heading(strip(lines[k])))
     \/ ~is_list_item(strip(appended(lines, k - 1)))
normalize_lines(lines) ==
  Concat([k \in 1 .. Len(lines) |->
            (IF k > 1 THEN <<NL>> ELSE << >>)
            \o (IF blank_before(lines, k) THEN <<NL>> ELSE << >>)
            \o appended(lines, k)])
preprocess_markdown(by, text) == normalize_lines(split(unescape(by, text)))

\* The patterns of the protected spans.  end_of(pattern, text, i): where
\* the match that starts at token i ends, 0 if none starts there.
next_at(text, i, S) == IF S = {} THEN 0 ELSE MinOf(S)
\* \\\[[\s\S]*?\\\]  \\\([\s\S]*?\\\)  ```[\s\S]*?```
end_of_pair(open, close, text, i) ==
  IF text[i] = open
  THEN next_at(text, i, {j \in i + 1 .. Len(text) : text[j] = close})
  ELSE 0
\* \$\$.*?\$\$ with re.DOTALL
end_of_display(text, i) ==
  IF i < Len(text) /\ text[i] = Dollar /\ text[i + 1] = Dollar
  THEN next_at(text, i, {j + 1 : j \in {j \in i + 2 .. Len(text) - 1 :
                                          text[j] = Dollar /\ text[j + 1] = Dollar}})
  ELSE 0
\* \$.*?\$, which does not cross a line break
end_of_inline(text, i) ==
  IF text[i] = Dollar
  THEN next_at(text, i, {j \in i + 1 .. Len(text) :
                           /\ text[j] = Dollar
                           /\ \A k \in i + 1 .. j - 1 : text[k] \notin {Dollar, NL}})
  ELSE 0
end_of(pattern, text, i) ==
  CASE pattern = "bracket" -> end_of_pair(Tok("\\["), Tok("\\]"), text, i)
    [] pattern = "paren" -> end_of_pair(Tok("\\("), Tok("\\)"), text, i)
    [] pattern = "display" -> end_of_display(text, i)
    [] pattern = "inline" -> end_of_inline(text, i)
    [] pattern = "fence" -> end_of_pair(Fence, Fence, text, i)

\* the matches re.sub finds, from left to right: <<first, last>> tokens
RECURSIVE spans(_, _, _)
spans_at(pattern, text, i) ==
  IF i = 0 THEN << >>
  ELSE <<<<i, end_of(pattern, text, i)>>>> \o spans(pattern, text, end_of(pattern, text, i) + 1)
spans(pattern, text, from) ==
  spans_at(pattern, text,
           next_at(text, from, {i \in from .. Len(text) : end_of(pattern, text, i) # 0}))

\* substitute: every match becomes f"{kind}{len(blocks)}{kind}" and is
\* appended to blocks
substituted(text, found, kind, n) ==
  SelectSeq([i \in 1 .. Len(text) |->
               IF \E k \in 1 .. Len(found) : found[k][1] = i
               THEN Placeholder(kind, n + (CHOOSE k \in 1 .. Len(found) : found[k][1] = i) - 1)
               ELSE IF \E k \in 1 .. Len(found) : found[k][1] < i /\ i <= found[k][2]
                    THEN Gone ELSE text[i]],
            LAMBDA t : t # Gone)
matched(text, found) == [k \in 1 .. Len(found) |-> SubSeq(text, found[k][1], found[k][2])]
sub_with(st, found, kind) ==
  [text |-> substituted(st.text, found, kind, Len(st.blocks)),
   blocks |-> st.blocks \o matched(st.text, found)]
sub(pattern, kind, st) == sub_with(st, spans(pattern, st.text, 1), kind)

\* _extract_math_blocks, _extract_code_blocks: [text, blocks]
extract_math_blocks(text) ==
  sub("inline", "MATHBLOCK",
      sub("display", "MATHBLOCK",
          sub("paren", "MATHBLOCK",
              sub("bracket", "MATHBLOCK", [text |-> text, blocks |-> << >>]))))
extract_code_blocks(text) == sub("fence", "CODEBLOCK", [text |-> text, blocks |-> << >>])

(* markdown.markdown(text, extensions=["fenced_code", "tables", "nl2br"]) of
   the markdown library, as far as the protected text goes: words and
   placeholders pass, a line break becomes <br /> and a line break, a
   backslash before a bracket or a parenthesis is dropped, and the whole
   becomes one paragraph. *)
unescaped(tok) ==
  CASE tok = Tok("\\[") -> Tok("[")
    [] tok = Tok("\\]") -> Tok("]")
    [] tok = Tok("\\(") -> Tok("(")
    [] tok = Tok("\\)") -> Tok(")")
    [] OTHER -> tok
markdown(text) ==
  IF text = << >> THEN << >>
  ELSE <<Tok("<p>")>>
       \o Concat([i \in 1 .. Len(text) |->
                    IF text[i] = NL THEN <<Tok("<br />"), NL>> ELSE <<unescaped(text[i])>>])
       \o <<Tok("</p>")>>

\* html.replace(placeholder, new)
replace(html, placeholder, new) ==
  Concat([i \in 1 .. Len(html) |-> IF html[i] = placeholder THEN new ELSE <<html[i]>>])

\* _restore_math_blocks, from block i on
RECURSIVE restore_math_blocks(_, _, _)
restore_math_blocks(html, blocks, i) ==
  IF i > Len(blocks) THEN html
  ELSE restore_math_blocks(replace(html, Placeholder("MATHBLOCK", i - 1), blocks[i]),
                           blocks, i + 1)

\* block.strip("`")
content_of_span(block, S) == IF S = {} THEN << >> ELSE SubSeq(block, MinOf(S), MaxOf(S))
content_of(block) == content_of_span(block, {i \in 1 .. Len(block) : block[i] # Fence})
\* <pre><code class="language-...">...</code></pre>
code_html_of(language, code_content) ==
  (IF language = << >> THEN <<Tok("<pre><code>")>>
   ELSE <<Tok("<pre><code class=\"language-")>> \o language \o <<Tok("\">")>>)
  \o code_content \o <<Tok("</code></pre>")>>
code_html_split(content, at) ==
  code_html_of(strip(SubSeq(content, 1, at - 1)), SubSeq(content, at + 1, Len(content)))
code_html(content) ==
  IF Has(content, NL)
  THEN code_html_split(content, MinOf({i \in 1 .. Len(content) : content[i] = NL}))
  ELSE code_html_of(<< >>, content)
\* _restore_code_blocks, from block i on
RECURSIVE restore_code_blocks(_, _, _)
restore_code_blocks(html, blocks, i) ==
  IF i > Len(blocks) THEN html
  ELSE restore_code_blocks(replace(html, Placeholder("CODEBLOCK", i - 1),
                                   code_html(content_of(blocks[i]))),
                           blocks, i + 1)

\* _apply_template: the body in the page template, after its style with
\* the background colour
apply_template(html_body, bg_color) ==
  <<Tok("<style>"), <<"--bg-color", bg_color, 0, 0>>, Tok("</style>")>> \o html_body

\* the two protections, in the order of the converter; text: what is left
protect_code(math) ==
  [math |-> math.blocks, code |-> extract_code_blocks(math.text).blocks,
   text |-> extract_code_blocks(math.text).text]
protect_math(code) ==
  [code |-> code.blocks, math |-> extract_math_blocks(code.text).blocks,
   text |-> extract_math_blocks(code.text).text]
protected(by, text) ==
  IF by = "MarkdownConverter" THEN protect_code(extract_math_blocks(text))
  ELSE protect_math(extract_code_blocks(text))

assembled(md, p, bg_color) ==
  [normalized |-> md,
   math_blocks |-> p.math,
   code_blocks |-> p.code,
   html |-> apply_template(
              restore_code_blocks(restore_math_blocks(markdown(p.text), p.math, 1),
                                  p.code, 1),
              bg_color)]
assemble(by, md, bg_color) == assembled(md, protected(by, md), bg_color)
\* convert_to_html / _convert_markdown_to_html
convert_to_html(by, text, bg_color) ==
  assemble(by, preprocess_markdown(by, fix_tikz_comments(text)), bg_color)

\* the background colours a caller may ask for
Colors == {"#FDFBF0", "#FFFFFF"}

returned(a, by) ==
  /\ converter' = by
  /\ normalized' = a.normalized
  /\ math_blocks' = a.math_blocks
  /\ code_blocks' = a.code_blocks
  /\ full_html' = a.html
  /\ UNCHANGED md_text

call_convert_to_html ==
  /\ converter = "none"
  /\ \E bg_color \in Colors :
       returned(convert_to_html("MarkdownConverter", md_text, bg_color), "MarkdownConverter")

call_convert_markdown_to_html ==
  /\ converter = "none"
  /\ \E bg_color \in Colors :
       returned(convert_to_html("MathJaxRenderer", md_text, bg_color), "MathJaxRenderer")

\* The texts given to the assembler: up to MaxParts of these parts.
MaxParts == 2
Parts ==
  { <<Word("a")>>,
    <<Dollar, Word("x"), Dollar>>,
    <<Dollar, Dollar, Tok("\\("), Word("a"), Tok("\\)"), Dollar, Dollar>>,
    <<Tok("\\["), Word("x"), Tok("\\]")>>,
    <<Fence, NL, Dollar, Word("x"), Dollar, NL, Fence>>,
    <<Fence, Word("py"), NL, Word("print"), Tok("('"), Esc, Tok("')"), NL, Fence>>,
    <<Esc>>,
    <<NL, Hash, Word("a")>>,
    <<NL, Tok("-"), Space, Word("a")>>,
    <<Percent, Word("c"), EndTikzpicture>>,
    <<Fence>>,
    <<Dollar>>,
    <<NL>> }
RECURSIVE Documents(_)
Documents(n) ==
  IF n = 1 THEN Parts
  ELSE Documents(n - 1) \cup {d \o p : d \in Documents(n - 1), p \in Parts}

(* ====================================================================== *)
(* LatexValidator.validate.  The text is a sequence of tokens; a brace, a
   dollar and the backslash that escapes one are tokens of their own. *)
Open == Tok("{")
Close == Tok("}")
Backslash == Tok("\\")
Frac == Tok("\\frac")
Count(text, tok) == Cardinality({i \in 1 .. Len(text) : text[i] = tok})
\* text.count(a + b) of two tokens in a row
CountPair(text, a, b) ==
  Cardinality({i \in 1 .. Len(text) - 1 : text[i] = a /\ text[i + 1] = b})
\* text.replace(a + b, '')
remove_pair(text, a, b) ==
  SelectSeq([i \in 1 .. Len(text) |->
               IF i < Len(text) /\ text[i] = a /\ text[i + 1] = b THEN Gone
               ELSE IF i > 1 /\ text[i - 1] = a /\ text[i] = b THEN Gone
               ELSE text[i]],
            LAMBDA t : t # Gone)

\* _check_braces, with \lbrace and \rbrace counted as braces
braces_error(open_count, close_count) ==
  IF open_count # close_count THEN <<<<"braces", open_count, close_count>>>> ELSE << >>
check_braces_of_commands(clean_text) ==
  braces_error(Count(clean_text, Open) + Count(clean_text, Tok("\\lbrace")),
               Count(clean_text, Close) + Count(clean_text, Tok("\\rbrace")))
\* _check_braces: None is the empty list here
check_braces(clean_text) ==
  braces_error(Count(clean_text, Open), Count(clean_text, Close))

\* [^}]*\} from token `from` on: where the brace that closes stands, 0 if none
first_close(text, from) ==
  next_at(text, from, {j \in from .. Len(text) : text[j] = Close})
\* (?:\{([^}]*)\})? after the brace at c1
second_close(text, c1) ==
  IF c1 < Len(text) /\ text[c1 + 1] = Open THEN first_close(text, c1 + 2) ELSE 0
frac_groups(text, i, c1, c2) ==
  [first |-> SubSeq(text, i + 2, c1 - 1),
   second |-> IF c2 # 0 THEN SubSeq(text, c1 + 2, c2 - 1) ELSE << >>,
   end |-> IF c2 # 0 THEN c2 ELSE c1]
frac_starts(text, from) ==
  {i \in from .. Len(text) - 1 :
     text[i] = Frac /\ text[i + 1] = Open /\ first_close(text, i + 2) # 0}
\* re.findall(r'\\frac\{([^}]*)\}(?:\{([^}]*)\})?', text)
RECURSIVE findall_frac(_, _)
findall_frac_from(text, m) == <<m>> \o findall_frac(text, m.end + 1)
findall_frac_at(text, i) ==
  IF i = 0 THEN << >>
  ELSE findall_frac_from(text,
         frac_groups(text, i, first_close(text, i + 2),
                     second_close(text, first_close(text, i + 2))))
findall_frac(text, from) == findall_frac_at(text, next_at(text, from, frac_starts(text, from)))
frac_errors(fracs) ==
  [k \in 1 .. Len(fracs) |-> <<"frac", fracs[k].first>>]
\* _check_frac
check_frac(text) ==
  frac_errors(SelectSeq(findall_frac(text, 1), LAMBDA m : m.second = << >>))

\* \\int_\{([^}]*)\}\^\{([^}]*)\} at token i: the two closing braces
int_closes(text, i, c1) ==
  IF c1 # 0 /\ c1 + 2 <= Len(text) /\ text[c1 + 1] = Tok("^") /\ text[c1 + 2] = Open
  THEN <<c1, first_close(text, c1 + 3)>> ELSE <<0, 0>>
int_at(text, i) ==
  IF i + 2 <= Len(text) /\ text[i] = Tok("\\int") /\ text[i + 1] = Tok("_")
     /\ text[i + 2] = Open
  THEN int_closes(text, i, first_close(text, i + 3)) ELSE <<0, 0>>
RECURSIVE finditer_int(_, _)
finditer_int_from(text, i, c) ==
  <<[lower |-> SubSeq(text, i + 3, c[1] - 1), upper |-> SubSeq(text, c[1] + 3, c[2] - 1)]>>
  \o finditer_int(text, c[2] + 1)
finditer_int_at(text, i) ==
  IF i = 0 THEN << >> ELSE finditer_int_from(text, i, int_at(text, i))
finditer_int(text, from) ==
  finditer_int_at(text, next_at(text, from,
                                {i \in from .. Len(text) : int_at(text, i)[2] # 0}))
\* r'\frac' in bound and bound.count('{') > bound.count('}')
unclosed_frac(bound) == Has(bound, Frac) /\ Count(bound, Open) > Count(bound, Close)
integral_errors(m) ==
  (IF unclosed_frac(m.lower) THEN <<<<"integral", "lower", Slice(m.lower, PrefixLength)>>>>
   ELSE << >>)
  \o (IF unclosed_frac(m.upper) THEN <<<<"integral", "upper", Slice(m.upper, PrefixLength)>>>>
      ELSE << >>)
integrals_errors(found) == Concat([k \in 1 .. Len(found) |-> integral_errors(found[k])])
\* _check_integral
check_integral(text) == integrals_errors(finditer_int(text, 1))

\* _check_dollar
check_dollar(text) ==
  IF (Count(text, Dollar) - CountPair(text, Backslash, Dollar)) % 2 # 0
  THEN <<<<"dollar">>>> ELSE << >>

Begin(name) == <<Tok("\\begin"), Open, Tok(name), Close>>
End(name) == <<Tok("\\end"), Open, Tok(name), Close>>
\* len(re.findall(pattern, text)) of a pattern without wildcards
CountAll(text, part) ==
  Cardinality({i \in 0 .. Len(text) - Len(part) : SubSeq(text, i + 1, i + Len(part)) = part})
environment_error(name, begin_count, end_count) ==
  IF begin_count # end_count THEN <<<<"environment", name, begin_count, end_count>>>>
  ELSE << >>
check_environment(text, name) ==
  environment_error(name, CountAll(text, Begin(name)), CountAll(text, End(name)))
\* _check_environments
check_environments(text) ==
  check_environment(text, "tikzpicture") \o check_environment(text, "tikzcd")
  \o check_environment(text, "equation") \o check_environment(text, "align")

ValidationResult(errors) == [is_valid |-> errors = << >>, errors |-> errors]
\* validate
validate(text) ==
  ValidationResult(
    check_braces(remove_pair(remove_pair(text, Backslash, Open), Backslash, Close))
    \o check_frac(text) \o check_integral(text) \o check_dollar(text)
    \o check_environments(text))

\* one call of a component on the text, its result appended
component_call(name, value) ==
  /\ component' = name
  /\ results' = Append(results, value)
  /\ UNCHANGED latex

call_validate ==
  /\ component = "none"
  /\ component_call("LatexValidator", validate(latex))

\* The texts given to the validator: up to MaxFragments of these fragments.
MaxFragments == 2
Fragments ==
  { <<Frac, Open, Tok("1"), Close, Open, Tok("2"), Close>>,
    <<Space, Tok("\\lbrace")>>,
    <<Space, Open>>,
    <<Close>>,
    <<Backslash, Open>>,
    <<Backslash>>,
    <<Frac, Open, Tok("1"), Close>>,
    <<Frac, Open, Tok("1"), Close, Open, Close>>,
    <<Dollar>>,
    <<Backslash, Dollar>>,
    <<Tok("\\int"), Tok("_"), Open, Frac, Open, Tok("1"), Close, Tok("^"), Open,
      Tok("2"), Close>>,
    Begin("tikzpicture"),
    End("tikzpicture"),
    Begin("align") }
RECURSIVE LatexTexts(_)
LatexTexts(n) ==
  IF n = 1 THEN Fragments
  ELSE LatexTexts(n - 1) \cup {t \o f : t \in LatexTexts(n - 1), f \in Fragments}

(* ====================================================================== *)
(* TikzConverter.convert.  A command such as \Rightarrow is the token \R
   followed by the word ightarrow: the text is the characters of its tokens
   in a row, which is all that str.replace and the patterns look at. *)
Mathbb(letter) == <<Tok("\\mathbb"), Open, Tok(letter), Close>>
SIMPLE_MACROS ==
  << <<Tok("\\Z"), Mathbb("Z")>>, <<Tok("\\N"), Mathbb("N")>>,
     <<Tok("\\Q"), Mathbb("Q")>>, <<Tok("\\R"), Mathbb("R")>>,
     <<Tok("\\C"), Mathbb("C")>>, <<Tok("\\F"), Mathbb("F")>>,
     <<Tok("\\P"), Mathbb("P")>>, <<Tok("\\A"), Mathbb("A")>>,
     <<Tok("\\eps"), <<Tok("\\varepsilon")>>>>, <<Tok("\\vphi"), <<Tok("\\varphi")>>>> >>

\* for macro, replacement in SIMPLE_MACROS.items(): tikz_code.replace(...)
RECURSIVE replace_macros(_, _)
replace_macros(tikz, k) ==
  IF k > Len(SIMPLE_MACROS) THEN tikz
  ELSE replace_macros(replace(tikz, SIMPLE_MACROS[k][1], SIMPLE_MACROS[k][2]), k + 1)

\* the keywords of the two detections that the characters of a token hold
KeywordsOf(tok) ==
  CASE tok[2] \in {"tikzcd", "circuitikz", "Stealth", "rectangle", "\\arrow"} -> {tok[2]}
    [] tok[2] = "\\chemfig" -> {"chemfig"}
    [] OTHER -> {}
mentions(tikz, key) == \E i \in 1 .. Len(tikz) : key \in KeywordsOf(tikz[i])
mentions_any(tikz, keys) == \E key \in keys : mentions(tikz, key)
when(cond, name) == IF cond THEN <<name>> ELSE << >>

\* _detect_packages
detect_packages(tikz) ==
  <<"amsmath", "amsfonts", "amssymb">>
  \o when(mentions_any(tikz, {"chemfig", "chemname"}), "chemfig")
  \o when(mentions_any(tikz, {"tikzcd", "\\arrow"}), "tikz-cd")
  \o when(mentions_any(tikz, {"circuitikz", "to["}), "circuitikz")
  \o when(mentions_any(tikz, {"axis", "addplot"}), "pgfplots")
  \o when(mentions_any(tikz, {"tdplot", "3d"}), "tikz-3dplot")
  \o when(mentions_any(tikz, {"array", "tabular"}), "array")

\* _detect_libraries
calc_for_pgfplots(tikz, libs) ==
  libs \o when(mentions(tikz, "pgfplots") /\ \A k \in 1 .. Len(libs) : libs[k] # "calc",
               "calc")
detect_libraries(tikz) ==
  calc_for_pgfplots(tikz,
    when(mentions_any(tikz, {"Stealth", "Latex"}), "arrows.meta")
    \o when(mentions_any(tikz, {"calc", "($"}), "calc")
    \o when(mentions_any(tikz, {"positioning", " of=", " of "}), "positioning")
    \o when(mentions_any(tikz, {"ellipse", "rectangle", "diamond"}), "shapes.geometric")
    \o when(mentions(tikz, "shapes"), "shapes")
    \o when(mentions(tikz, "background"), "backgrounds")
    \o when(mentions(tikz, "fit="), "fit"))

Chinese == <<"cjk", "", 0, 0>>          \* a character of '\u4e00' .. '\u9fff'
\* sep.join(parts) of tokens
join_with(parts, sep) ==
  [i \in 1 .. 2 * Len(parts) - 1 |-> IF i % 2 = 1 THEN parts[(i + 1) \div 2] ELSE sep]
UsePackage(pkg) == <<"\\usepackage", pkg, 0, 0>>
usepackages(packages) ==
  join_with([k \in 1 .. Len(packages) |-> UsePackage(packages[k])], NL)
usetikzlibs(libs) ==
  IF libs = << >> THEN << >>
  ELSE <<Tok("\\usetikzlibrary{")>> \o join_with([k \in 1 .. Len(libs) |-> Tok(libs[k])],
                                                Tok(","))
       \o <<Close>>
\* _build_tikz_document
build_tikz_document(tikz, packages, tikzlibraries) ==
  when(Has(tikz, Chinese), Tok("% WARNING: TikZJax does not support CJK fonts\n"))
  \o usepackages(packages) \o <<NL>>
  \o when(\E k \in 1 .. Len(packages) : packages[k] = "pgfplots",
          Tok("\\pgfplotsset{compat=1.16}"))
  \o <<NL>> \o usetikzlibs(tikzlibraries) \o <<NL>>
  \o Begin("document") \o <<NL>> \o tikz \o <<NL>> \o End("document")

ScriptOpen == Tok("<div class=\"tikz-diagram\"><script type=\"text/tikz\">")
Script(full_tikz) == <<ScriptOpen, NL>> \o full_tikz \o <<NL, Tok("</script></div>")>>

\* what a callback of re.sub returned or raised
Block(text, e) == [text |-> text, exc |-> e]
tikz_block_of(c) ==
  IF c.exc # None THEN Block(<< >>, c.exc)
  ELSE Block(Script(build_tikz_document(c.text, detect_packages(c.text),
                                        detect_libraries(c.text))),
             None)
\* _convert_tikz_block
convert_tikz_block(tikz) ==
  tikz_block_of(convert("TikzPlotConverter", replace_macros(tikz, 1)))

\* _convert_chemfig_block
convert_chemfig_block(chemfig_cmd) ==
  Block(Script(usepackages(<<"amsmath", "amsfonts", "amssymb", "chemfig">>) \o <<NL>>
               \o Begin("document") \o <<NL>> \o chemfig_cmd \o <<NL>> \o End("document")),
        None)

starts_with(text, i, part) ==
  i + Len(part) - 1 <= Len(text) /\ SubSeq(text, i, i + Len(part) - 1) = part
\* \\begin\{name\}[\s\S]*?\\end\{name\} at token i: its last token, 0 if none
environment_end(text, i, name) ==
  IF starts_with(text, i, Begin(name))
  THEN next_at(text, i, {j + 3 : j \in {j \in i + 4 .. Len(text) :
                                          starts_with(text, j, End(name))}})
  ELSE 0
\* the braces open after token j of a \chemfig{ that starts at token i
depth(text, i, j) ==
  Cardinality({k \in i + 1 .. j : text[k] = Open})
  - Cardinality({k \in i + 1 .. j : text[k] = Close})
\* \\chemfig\{(?:[^{}]|\{(?:[^{}]|\{[^{}]*\})*\})*\} at token i
chemfig_close(text, i, j) ==
  IF j # 0 /\ \A k \in i + 1 .. j : depth(text, i, k) <= 3 THEN j ELSE 0
chemfig_end(text, i) ==
  IF starts_with(text, i, <<Tok("\\chemfig"), Open>>)
  THEN chemfig_close(text, i,
         next_at(text, i, {j \in i + 2 .. Len(text) : depth(text, i, j) = 0}))
  ELSE 0
block_end(kind, text, i) ==
  IF kind = "chemfig" THEN chemfig_end(text, i) ELSE environment_end(text, i, kind)
convert_block(kind, block) ==
  IF kind = "chemfig" THEN convert_chemfig_block(block) ELSE convert_tikz_block(block)

\* re.sub(pattern, callback, text): the first exception raised ends it
glue(before, b, rest) ==
  IF b.exc # None THEN b
  ELSE IF rest.exc # None THEN rest
  ELSE Block(before \o b.text \o rest.text, None)
RECURSIVE sub_blocks(_, _)
sub_blocks_with(kind, text, i, j) ==
  glue(SubSeq(text, 1, i - 1), convert_block(kind, SubSeq(text, i, j)),
       sub_blocks(kind, SubSeq(text, j + 1, Len(text))))
sub_blocks_at(kind, text, i) ==
  IF i = 0 THEN Block(text, None) ELSE sub_blocks_with(kind, text, i, block_end(kind, text, i))
sub_blocks(kind, text) ==
  sub_blocks_at(kind, text,
                next_at(text, 1, {i \in 1 .. Len(text) : block_end(kind, text, i) # 0}))
sub_in(kind, b) == IF b.exc # None THEN b ELSE sub_blocks(kind, b.text)

\* if r'\chemfig{' in text and '<script type="text/tikz">' not in text
sub_chemfig(b) ==
  IF /\ b.exc = None
     /\ CountAll(b.text, <<Tok("\\chemfig"), Open>>) > 0
     /\ ~Has(b.text, ScriptOpen)
  THEN sub_blocks("chemfig", b.text) ELSE b

\* TikzConverter.convert
tikz_convert(text) ==
  sub_chemfig(sub_in("circuitikz", sub_in("tikzcd", sub_blocks("tikzpicture", text))))

call_tikz_convert ==
  /\ component = "none"
  /\ component_call("TikzConverter", tikz_convert(latex))

\* The texts given to TikzConverter: up to MaxBlocks of these.
MaxBlocks == 2
Chemfig(content) == <<Tok("\\chemfig"), Open>> \o content \o <<Close>>
Rightarrow == <<Tok("\\R"), Word("ightarrow")>>
Blocks ==
  { Begin("tikzpicture") \o <<Tok("\\node"), Space, Tok("\\R"), Space, Tok("\\eps")>>
      \o End("tikzpicture"),
    Begin("tikzpicture") \o <<Tok("\\node"), Space>> \o Rightarrow
      \o <<Space, Tok("\\eps"), Word("ilon"), Space, Tok("\\Z")>> \o End("tikzpicture"),
    Begin("tikzcd") \o <<Word("A"), Space, Tok("\\arrow"), Space, Tok("\\P"), Word("i")>>
      \o End("tikzcd"),
    Begin("circuitikz") \o <<Tok("\\draw"), Space, Tok("rectangle")>> \o End("circuitikz"),
    Begin("tikzpicture")
      \o PlotCommand(DomainOption(0, 1) \o SamplesOption(2), VarX, VarX)
      \o End("tikzpicture"),
    Begin("tikzpicture") \o PlotCommand(<<Tok("domain="), Num("int", 1, 1), Tok("-"),
                                           Num("int", 2, 1), Tok(":"), Num("int", 1, 1)>>,
                                         VarX, VarX)
      \o End("tikzpicture"),
    Begin("tikzpicture") \o Chemfig(<<Word("H")>>) \o <<Chinese>> \o End("tikzpicture"),
    Chemfig(<<Word("H"), Tok("-"), Word("O")>>),
    Chemfig(<<Word("A"), Open, Word("b"), Open, Word("c"), Close, Close>>),
    Chemfig(<<Open, Open, Open, Word("d"), Close, Close, Close>>),
    Begin("tikzpicture"),
    <<Space>> \o Rightarrow,
    <<NL>> }
RECURSIVE TikzTexts(_)
TikzTexts(n) ==
  IF n = 1 THEN Blocks
  ELSE TikzTexts(n - 1) \cup {t \o b : t \in TikzTexts(n - 1), b \in Blocks}

(* ====================================================================== *)
(* ListConverter.convert *)
Item == Tok("\\item")
\* re.sub(part, "", text) of a part without wildcards
remove_all(text, part) ==
  SelectSeq([i \in 1 .. Len(text) |->
               IF \E a \in i - Len(part) + 1 .. i : a >= 1 /\ starts_with(text, a, part)
               THEN Gone ELSE text[i]],
            LAMBDA t : t # Gone)
\* (\[.*?\])? after token a: the token of the bracket that closes, a if none
option_end(text, a) ==
  IF a < Len(text) /\ text[a + 1] = Tok("[")
  THEN MaxOf({a, next_at(text, a, {j \in a + 2 .. Len(text) :
                                     /\ text[j] = Tok("]")
                                     /\ \A k \in a + 2 .. j - 1 : text[k] # NL})})
  ELSE a
\* re.sub(r"\\begin\{enumerate\}(\[.*?\])?", "", text)
remove_begin_enumerate(text) ==
  SelectSeq([i \in 1 .. Len(text) |->
               IF \E a \in 1 .. i :
                    /\ starts_with(text, a, Begin("enumerate"))
                    /\ i <= MaxOf({a + 3, option_end(text, a + 3)})
               THEN Gone ELSE text[i]],
            LAMBDA t : t # Gone)
\* the four substitutions of convert
remove_markers(text) ==
  remove_all(remove_all(remove_all(remove_begin_enumerate(text), End("enumerate")),
                        Begin("itemize")),
             End("itemize"))

\* stripped.startswith(r"\item")
is_item(stripped) == stripped # << >> /\ Head(stripped) = Item
\* re.sub(r"^\\item\s*", "", stripped)
content_from(stripped, S) ==
  IF S = {} THEN << >> ELSE SubSeq(stripped, MinOf(S), Len(stripped))
item_content(stripped) ==
  content_from(stripped, {i \in 2 .. Len(stripped) : stripped[i] # Space})
\* f"{item_counter}. {content}"
numbered(item_counter, content) == <<Num("int", item_counter, 1), Tok(". ")>> \o content

\* item_counter after a line, with a counter that starts again at every
\* line that is no item
counter_of_run(item_counter, line) ==
  IF is_item(strip(line)) THEN item_counter + 1 ELSE 0
\* item_counter after a line
counter_after(item_counter, line) ==
  IF is_item(strip(line)) THEN item_counter + 1 ELSE item_counter
\* what the loop appends for a line, item_counter already counted up
appended_for(item_counter, line) ==
  IF is_item(strip(line)) THEN numbered(item_counter, item_content(strip(line)))
  ELSE line
\* the loop of _convert_items from line i on
RECURSIVE convert_lines(_, _, _)
convert_lines(lines, i, item_counter) ==
  IF i > Len(lines) THEN << >>
  ELSE <<appended_for(counter_after(item_counter, lines[i]), lines[i])>>
       \o convert_lines(lines, i + 1, counter_after(item_counter, lines[i]))
\* "\n".join(result)
join_lines(lines) ==
  Concat([k \in 1 .. Len(lines) |-> (IF k > 1 THEN <<NL>> ELSE << >>) \o lines[k]])
\* _convert_items
convert_items(text) == join_lines(convert_lines(split(text), 1, 0))
\* ListConverter.convert
list_convert(text) == convert_items(remove_markers(text))

call_list_convert ==
  /\ component = "none"
  /\ component_call("ListConverter", list_convert(latex))

\* a second call of the same converter, on the same text
call_list_convert_again ==
  /\ component = "ListConverter"
  /\ Len(results) = 1
  /\ component_call("ListConverter", list_convert(latex))

\* The texts given to ListConverter: up to MaxLines of these lines, joined
\* by line breaks.
MaxLines == 3
ListLines ==
  { Begin("enumerate"),
    Begin("enumerate") \o <<Tok("["), Word("a"), Tok("]")>> \o <<Item, Space, Word("x")>>,
    End("enumerate"),
    Begin("itemize") \o End("itemize"),
    <<Space, Item, Space, Space, Word("a"), Space>>,
    <<Item>>,
    <<Item, Word("sep")>>,
    <<Word("b"), Space, Item, Space, Word("c")>>,
    << >> }
RECURSIVE ListTexts(_)
ListTexts(n) ==
  IF n = 1 THEN ListLines
  ELSE ListTexts(n - 1) \cup {t \o <<NL>> \o l : t \in ListTexts(n - 1), l \in ListLines}

\* ---------------------------------------------------------------------
\* TableConverter (src/infrastructure/converter/table_converter.py)
\* ---------------------------------------------------------------------
Amp == Tok("&")
RowEnd == Tok("\\\\")                    \* the row separator, two backslashes
Hline == Tok("\\hline")
Pipe == Tok("|")
Dashes == Tok("---")
White == {Space, NL}

\* str.strip() of a row or of a cell
strip_white(row) == strip_to(row, {i \in 1 .. Len(row) : row[i] \notin White})
\* token i stands in the white space that follows a token mark (the \s* of
\* a pattern that ends after mark)
follows(content, i, mark) ==
  /\ content[i] \in White
  /\ \E a \in 1 .. i - 1 : content[a] = mark /\ \A k \in a + 1 .. i : content[k] \in White
\* re.sub(r'\\hline\s*', '', content)
remove_hline(content) ==
  SelectSeq([i \in 1 .. Len(content) |->
               IF content[i] = Hline \/ follows(content, i, Hline) THEN Gone ELSE content[i]],
            LAMBDA t : t # Gone)
\* re.split(r'\\\\\s*', content)
RECURSIVE split_rows(_)
split_rows_from(content, s) ==
  <<SubSeq(content, 1, s - 1)>>
  \o split_rows(SubSeq(content,
                       MinOf({i \in s + 1 .. Len(content) : content[i] \notin White}
                             \cup {Len(content) + 1}),
                       Len(content)))
split_rows_at(content, S) ==
  IF S = {} THEN <<content>> ELSE split_rows_from(content, MinOf(S))
split_rows(content) ==
  split_rows_at(content, {i \in 1 .. Len(content) : content[i] = RowEnd})
\* row.split('&')
RECURSIVE split_cells(_)
split_cells_at(row, S) ==
  IF S = {} THEN <<row>>
  ELSE <<SubSeq(row, 1, MinOf(S) - 1)>> \o split_cells(SubSeq(row, MinOf(S) + 1, Len(row)))
split_cells(row) == split_cells_at(row, {i \in 1 .. Len(row) : row[i] = Amp})
\* '| ' + ' | '.join(cells) + ' |'
md_row(cells) ==
  <<Tok("| ")>>
  \o Concat([k \in 1 .. Len(cells) |->
               (IF k > 1 THEN <<Tok(" | ")>> ELSE << >>) \o strip_white(cells[k])])
  \o <<Tok(" |")>>
\* '|' + '|'.join(['---'] * len(cells)) + '|'
sep_row(n) == <<Pipe>> \o [k \in 1 .. 2 * n - 1 |-> IF k % 2 = 1 THEN Dashes ELSE Pipe] \o <<Pipe>>
\* what the loop appends for chunk i (counted from 0) once stripped
md_rows_of(i, row) ==
  IF row = << >> THEN << >>
  ELSE <<md_row(split_cells(row))>>
       \o (IF i = 0 THEN <<sep_row(Len(split_cells(row)))>> ELSE << >>)
md_rows(rows) == Concat([k \in 1 .. Len(rows) |-> md_rows_of(k - 1, strip_white(rows[k]))])
\* _convert_tabular
convert_tabular(content) == join_lines(md_rows(split_rows(remove_hline(content))))

\* \\begin\{tabular\}\{[^}]*\}([\s\S]*?)\\end\{tabular\} at token i: the
\* brace that closes the column specification and the first token of
\* \end{tabular}, 0 if the pattern does not match at i
colspec_close(text, i) ==
  IF starts_with(text, i, Begin("tabular") \o <<Open>>)
  THEN next_at(text, i, {j \in i + 5 .. Len(text) : text[j] = Close})
  ELSE 0
tabular_end_after(text, c) ==
  IF c = 0 THEN 0
  ELSE next_at(text, c, {j \in c + 1 .. Len(text) : starts_with(text, j, End("tabular"))})
tabular_end(text, i) == tabular_end_after(text, colspec_close(text, i))
tabular_content(text, i) == SubSeq(text, colspec_close(text, i) + 1, tabular_end(text, i) - 1)
\* re.sub(pattern, self._convert_tabular, text)
RECURSIVE sub_tabular(_)
sub_tabular_at(text, i) ==
  IF i = 0 THEN text
  ELSE SubSeq(text, 1, i - 1)
       \o convert_tabular(tabular_content(text, i))
       \o sub_tabular(SubSeq(text, tabular_end(text, i) + 4, Len(text)))
sub_tabular(text) ==
  sub_tabular_at(text, next_at(text, 1, {i \in 1 .. Len(text) : tabular_end(text, i) # 0}))

\* re.sub(r'\\begin\{table\}(\[.*?\])?', '', text)
remove_begin_table(text) ==
  SelectSeq([i \in 1 .. Len(text) |->
               IF \E a \in 1 .. i :
                    /\ starts_with(text, a, Begin("table"))
                    /\ i <= MaxOf({a + 3, option_end(text, a + 3)})
               THEN Gone ELSE text[i]],
            LAMBDA t : t # Gone)
\* re.sub(r'\\caption\{.*?\}', '', text)
caption_end(text, a) ==
  next_at(text, a, {j \in a + 2 .. Len(text) :
                      text[j] = Close /\ \A k \in a + 2 .. j - 1 : text[k] # NL})
remove_caption(text) ==
  SelectSeq([i \in 1 .. Len(text) |->
               IF \E a \in 1 .. i :
                    /\ starts_with(text, a, <<Tok("\\caption"), Open>>)
                    /\ i <= caption_end(text, a)
               THEN Gone ELSE text[i]],
            LAMBDA t : t # Gone)
\* the four substitutions that remove the table wrapper
remove_wrapper(text) ==
  remove_caption(remove_all(remove_all(remove_begin_table(text), End("table")),
                            <<Tok("\\centering")>>))
\* TableConverter.convert
table_convert(text) == sub_tabular(remove_wrapper(text))

call_table_convert ==
  /\ component = "none"
  /\ component_call("TableConverter", table_convert(latex))

\* The texts given to TableConverter.convert: one tabular of at most MaxRows
\* pieces, alone, inside a table wrapper, or followed by a second tabular.
MaxRows == 3
ColSpec == <<Open, Word("cc"), Close>>
RowPieces ==
  { <<Word("a"), Space, Amp, Space, Word("b"), Space, RowEnd, NL>>,
    <<Space, RowEnd, Space>>,
    <<Hline, NL>>,
    <<Word("c"), RowEnd>>,
    <<Word("d"), Amp>>,
    <<NL>> }
RECURSIVE TableContents(_)
TableContents(n) ==
  IF n = 0 THEN {<< >>}
  ELSE TableContents(n - 1) \cup {t \o p : t \in TableContents(n - 1), p \in RowPieces}
Tabular(content) == Begin("tabular") \o ColSpec \o content \o End("tabular")
TableTexts(n) ==
  UNION {{ Tabular(c),
           Begin("table") \o <<Tok("["), Word("h"), Tok("]"), NL, Tok("\\centering"), NL>>
             \o Tabular(c)
             \o <<NL, Tok("\\caption"), Open, Word("t"), Close, NL>> \o End("table"),
           Tabular(c) \o <<NL>> \o Tabular(<<Word("x"), Space, RowEnd>>),
           Begin("tabular") \o ColSpec \o c } : c \in TableContents(n)}

\* ---------------------------------------------------------------------
\* LLMToolHandler (src/handlers/llm_tool_handler.py)
\* ---------------------------------------------------------------------
\* event.unified_msg_origin of the events the tools are called for
Origins == {"A", "B"}
\* the image rendered by the k-th call
Image(k) == <<"image", k>>
\* a call: its tool, the origin of its event, where it stands ("render",
\* "sleep", "send": at that await; "done": returned), the image it holds and
\* what it returned
ToolCall(tool, o, at, img, said) ==
  [tool |-> tool, origin |-> o, at |-> at, image |-> img, returned |-> said]
begins(call) == tool_calls' = Append(tool_calls, call)
goes_on(k, at, img, said) ==
  tool_calls' = [tool_calls EXCEPT ![k] = ToolCall(@.tool, @.origin, at, img, said)]
IsAt(k, at) == k \in 1 .. Len(tool_calls) /\ tool_calls[k].at = at

\* handle_render_math up to `await self._render_orchestrator.render(content)`
begin_render_math(o, content) ==
  /\ IF content = ""
     THEN begins(ToolCall("render_math", o, "done", None, "content is empty"))
     ELSE begins(ToolCall("render_math", o, "render", None, ""))
  /\ UNCHANGED <<last_rendered_image, render_success, sent>>

\* render has returned a path that exists ("image"), returned no such path
\* ("no image") or raised ("raised")
render_math_rendered(k, how) ==
  /\ IsAt(k, "render")
  /\ IF how = "image"
     THEN /\ goes_on(k, "sleep", Image(k), "")
          /\ UNCHANGED <<last_rendered_image, render_success>>
     ELSE /\ goes_on(k, "done", None, "render failed")
          /\ last_rendered_image' = None
          /\ render_success' = FALSE
  /\ UNCHANGED sent

\* after `await asyncio.sleep(0.5)`
render_math_saves(k) ==
  /\ IsAt(k, "sleep")
  /\ last_rendered_image' = tool_calls[k].image
  /\ render_success' = TRUE
  /\ goes_on(k, "done", tool_calls[k].image, "rendered")
  /\ UNCHANGED sent

\* handle_send_image up to `await self._context.send_message(...)`; exists
\* is what self._last_rendered_image.exists() answers
begin_send_image(o, exists) ==
  /\ IF ~render_success
     THEN begins(ToolCall("send_image", o, "done", None, "nothing rendered"))
     ELSE IF last_rendered_image = None
     THEN begins(ToolCall("send_image", o, "done", None, "nothing to send"))
     ELSE IF ~exists
     THEN begins(ToolCall("send_image", o, "done", None, "file is missing"))
     ELSE begins(ToolCall("send_image", o, "send", last_rendered_image, ""))
  /\ UNCHANGED <<last_rendered_image, render_success, sent>>

\* send_message has returned and the flag stays as it is
send_image_sent_keeps_flag(k, ok) ==
  /\ IsAt(k, "send")
  /\ IF ok
     THEN /\ sent' = Append(sent, <<tool_calls[k].origin, tool_calls[k].image>>)
          /\ goes_on(k, "done", tool_calls[k].image, "sent")
     ELSE /\ goes_on(k, "done", tool_calls[k].image, "send failed")
          /\ UNCHANGED sent
  /\ UNCHANGED <<last_rendered_image, render_success>>

\* send_message has returned (ok) or raised; the name of the message is
\* read from _last_rendered_image, which raises when it is None by then
send_image_sent(k, ok) ==
  /\ IsAt(k, "send")
  /\ IF ok
     THEN /\ sent' = Append(sent, <<tool_calls[k].origin, tool_calls[k].image>>)
          /\ render_success' = FALSE
          /\ goes_on(k, "done", tool_calls[k].image,
                     IF last_rendered_image = None THEN "send failed" ELSE "sent")
     ELSE /\ goes_on(k, "done", tool_calls[k].image, "send failed")
          /\ UNCHANGED <<sent, render_success>>
  /\ UNCHANGED last_rendered_image

\* has_pending_image
has_pending_image == render_success /\ last_rendered_image # None

\* the number of tool calls made on the handler
MaxToolCalls == 4

\* ---------------------------------------------------------------------
\* PlaywrightDependencyInstaller.check_and_install, as RenderOrchestrator.
\* render calls it (src/infrastructure/browser/dependency_installer.py,
\* src/application/render_orchestrator.py)
\* ---------------------------------------------------------------------
\* a render call: where it stands ("install": at the await of
\* _install_deps; "convert": past the check; "done": past the steps that
\* follow; "raised"), what check_and_install returned to it, what it raised
\* and the steps it has taken after the check
CheckCall(at, said, e, steps) == [at |-> at, returned |-> said, exc |-> e, steps |-> steps]
\* render after check_and_install has returned
Checked(said) ==
  IF said = "True" THEN CheckCall("convert", "True", "none", {})
  ELSE CheckCall("raised", "False", "DependencyError", {})

\* is_installed() of a call that finds no cached answer
is_installed(missing) == IF missing THEN "False" ELSE "True"

\* check_and_install without the test of _install_attempted
check_and_install_again(missing) ==
  IF installed = "True"
  THEN /\ check_calls' = Append(check_calls, Checked("True"))
       /\ UNCHANGED <<installed, install_attempted, lib_checks, installs>>
  ELSE /\ installed' = (IF installed = "None" THEN is_installed(missing) ELSE installed)
       /\ lib_checks' = (IF installed = "None" THEN lib_checks + 1 ELSE lib_checks)
       /\ IF installed' = "True"
          THEN /\ check_calls' = Append(check_calls, Checked("True"))
               /\ UNCHANGED <<install_attempted, installs>>
          ELSE /\ install_attempted' = TRUE
               /\ installs' = installs + 1
               /\ check_calls' = Append(check_calls, CheckCall("install", "", "none", {}))

\* render up to the first await of check_and_install: the call returns at
\* once or begins the installation; missing is what _check_missing_libs
\* would find
check_and_install(missing) ==
  IF installed = "True"
  THEN /\ check_calls' = Append(check_calls, Checked("True"))
       /\ UNCHANGED <<installed, install_attempted, lib_checks, installs>>
  ELSE IF install_attempted
  THEN /\ check_calls' = Append(check_calls, Checked("False"))
       /\ UNCHANGED <<installed, install_attempted, lib_checks, installs>>
  ELSE /\ installed' = (IF installed = "None" THEN is_installed(missing) ELSE installed)
       /\ lib_checks' = (IF installed = "None" THEN lib_checks + 1 ELSE lib_checks)
       /\ IF installed' = "True"
          THEN /\ check_calls' = Append(check_calls, Checked("True"))
               /\ UNCHANGED <<install_attempted, installs>>
          ELSE /\ install_attempted' = TRUE
               /\ installs' = installs + 1
               /\ check_calls' = Append(check_calls, CheckCall("install", "", "none", {}))

\* _install_deps has returned
install_deps_returns(k, success) ==
  /\ k \in 1 .. Len(check_calls)
  /\ check_calls[k].at = "install"
  /\ installed' = (IF success THEN "True" ELSE installed)
  /\ check_calls' = [check_calls EXCEPT ![k] = Checked(IF success THEN "True" ELSE "False")]
  /\ UNCHANGED <<install_attempted, lib_checks, installs>>

\* what render does after the check: preprocessing and conversion, the
\* temporary file, the page of the browser
render_after_check(k) ==
  /\ k \in 1 .. Len(check_calls)
  /\ check_calls[k].at = "convert"
  /\ check_calls' = [check_calls EXCEPT ![k] =
                       CheckCall("done", "True", "none", {"preprocess", "temp file", "browser"})]
  /\ UNCHANGED <<installed, install_attempted, lib_checks, installs>>

\* the number of render calls made on the orchestrator
MaxRenderCalls == 5

\* The expressions given to safe_eval_math: every tree of at most MaxDepth
\* nested nodes over a small alphabet, and one text that does not parse.
MaxDepth == 2

IntLit(n) == <<"Constant", "int", n, 1>>
Leaves == {IntLit(2), IntLit(0), <<"Constant", "str", 0, 1>>,
           <<"Constant", "bool", 1, 1>>, <<"Constant", "NoneType", 0, 1>>,
           <<"Name", "pi">>, <<"Name", "os">>, <<"ListComp">>}
Wrap(t) ==
  {<<"BinOp", op, t, IntLit(2)>> : op \in {"Add", "Div", "LShift"}}
  \cup {<<"BinOp", "Div", IntLit(2), t>>}
  \cup {<<"UnaryOp", op, t>> : op \in {"USub", "Not"}}
  \cup {<<"Call", <<"Name", "sqrt">>, <<t>>, kw>> : kw \in {<< >>, <<IntLit(2)>>}}
  \cup {<<"Call", <<"Name", "exit">>, <<t>>, << >> >>,
        <<"Call", <<"Attribute", <<"Name", "math">>, "sqrt">>, <<t>>, << >> >>,
        <<"Attribute", t, "real">>,
        <<"Subscript", t, IntLit(0)>>,
        <<"Compare", t, IntLit(0)>>}

RECURSIVE Trees(_)
Trees(d) ==
  IF d = 0 THEN Leaves
  ELSE LET T == Trees(d - 1) IN T \cup UNION {Wrap(t) : t \in T}

EvalIdle ==
  /\ expr = None
  /\ evaluator = "none"
  /\ result = None
  /\ called = {}
  /\ raised = FALSE

\* no text has been given to a plot converter
PlotIdle ==
  /\ tikz_code = << >>
  /\ outputs = << >>
  /\ plots = << >>

\* no text has been given to an assembler
MarkdownIdle ==
  /\ md_text = << >>
  /\ converter = "none"
  /\ normalized = << >>
  /\ math_blocks = << >>
  /\ code_blocks = << >>
  /\ full_html = << >>

\* no text has been given to a structural component
StructuralIdle ==
  /\ latex = << >>
  /\ component = "none"
  /\ results = << >>

\* a handler just built, no tool called
HandlerIdle ==
  /\ last_rendered_image = << >>
  /\ render_success = FALSE
  /\ tool_calls = << >>
  /\ sent = << >>

\* an installer just built
InstallerIdle ==
  /\ installed = "None"
  /\ install_attempted = FALSE
  /\ check_calls = << >>
  /\ lib_checks = 0
  /\ installs = 0

PureIdle ==
  EvalIdle /\ PlotIdle /\ MarkdownIdle /\ StructuralIdle /\ HandlerIdle /\ InstallerIdle

InitBrowser == BrowserManagerInit /\ RenderIdle /\ PureIdle

NextBrowser ==
  \/ \E t \in Tasks : call_get_browser(t) /\ UNCHANGED rvars /\ UNCHANGED pvars
  \/ \E t \in Tasks : call_close(t) /\ UNCHANGED rvars /\ UNCHANGED pvars
  \/ \E t \in Tasks : get_browser_acquire(t) /\ UNCHANGED rvars /\ UNCHANGED pvars
  \/ \E t \in Tasks : get_browser_check(t) /\ UNCHANGED rvars /\ UNCHANGED pvars
  \/ \E t \in Tasks : get_browser_start_playwright(t) /\ UNCHANGED rvars /\ UNCHANGED pvars
  \/ \E t \in Tasks : get_browser_launch(t) /\ UNCHANGED rvars /\ UNCHANGED pvars
  \/ \E t \in Tasks : close_acquire(t) /\ UNCHANGED rvars /\ UNCHANGED pvars
  \/ \E t \in Tasks : close_browser(t) /\ UNCHANGED rvars /\ UNCHANGED pvars
  \/ \E t \in Tasks : close_playwright(t) /\ UNCHANGED rvars /\ UNCHANGED pvars
  \/ \E t \in Tasks : task_cancelled(t) /\ UNCHANGED rvars /\ UNCHANGED pvars
  \/ browser_disconnected /\ UNCHANGED rvars /\ UNCHANGED pvars

SpecBrowser == InitBrowser /\ [][NextBrowser]_vars

Init == BrowserManagerInit /\ RenderIdle /\ PureIdle

Next ==
  \/ render_start /\ UNCHANGED pvars
  \/ render_check_deps /\ UNCHANGED pvars
  \/ render_convert /\ UNCHANGED pvars
  \/ render_to_image_mkdir /\ UNCHANGED pvars
  \/ render_to_image_open /\ UNCHANGED pvars
  \/ render_to_image_write /\ UNCHANGED pvars
  \/ get_browser_acquire(RenderCaller) /\ UNCHANGED rvars /\ UNCHANGED pvars
  \/ get_browser_check(RenderCaller) /\ UNCHANGED rvars /\ UNCHANGED pvars
  \/ get_browser_start_playwright(RenderCaller) /\ UNCHANGED rvars /\ UNCHANGED pvars
  \/ get_browser_launch(RenderCaller) /\ UNCHANGED rvars /\ UNCHANGED pvars
  \/ do_render_browser_error /\ UNCHANGED pvars
  \/ do_render_new_page /\ UNCHANGED pvars
  \/ do_render_add_init_script /\ UNCHANGED pvars
  \/ do_render_setup_font_routes /\ UNCHANGED pvars
  \/ load_and_wait_goto /\ UNCHANGED pvars
  \/ load_and_wait_math_ready /\ UNCHANGED pvars
  \/ load_and_wait_math_timeout /\ UNCHANGED pvars
  \/ load_and_wait_math_error /\ UNCHANGED pvars
  \/ wait_for_tikz_count /\ UNCHANGED pvars
  \/ wait_for_tikz_found /\ UNCHANGED pvars
  \/ wait_for_tikz_timeout /\ UNCHANGED pvars
  \/ wait_for_tikz_error /\ UNCHANGED pvars
  \/ wait_for_tikz_json_value /\ UNCHANGED pvars
  \/ wait_for_tikz_sleep /\ UNCHANGED pvars
  \/ take_screenshot_height /\ UNCHANGED pvars
  \/ take_screenshot_resize /\ UNCHANGED pvars
  \/ take_screenshot_capture /\ UNCHANGED pvars
  \/ do_render_page_close /\ UNCHANGED pvars
  \/ render_cancelled_inner /\ UNCHANGED pvars
  \/ render_cancelled_outer /\ UNCHANGED pvars
  \/ render_cancelled_get_browser /\ UNCHANGED pvars
  \/ render_cancelled_check_deps /\ UNCHANGED pvars
  \/ mathjax_ready /\ UNCHANGED pvars
  \/ \E i \in 1 .. MaxContainers : tikzjax_compiled(i) /\ UNCHANGED pvars
  \/ browser_disconnected /\ UNCHANGED rvars /\ UNCHANGED pvars

Spec == Init /\ [][Next]_vars

\* What the code itself guarantees about the progress of a render call.  A
\* synchronous step always completes; an await given a timeout ends when the
\* timeout expires at the latest (goto 60000 ms, the two wait_for_function
\* calls, screenshot); asyncio.sleep(2) ends; the dependency check is a
\* chain of wait_for(..., timeout) calls; the lock is free whenever the one
\* caller of this specification asks for it.  Starting the driver, launching
\* the browser, new_page, add_init_script, route, set_viewport_size and
\* page.close are granted progress as well, although the code gives them no
\* timeout.  The awaits that run script in the page without any timeout (the
\* two page.evaluate calls and json_value) are granted progress only once
\* the browser has disconnected, when the driver fails every pending call.
RenderProgress ==
  /\ WF_vars(render_check_deps /\ UNCHANGED pvars)
  /\ WF_vars(render_convert /\ UNCHANGED pvars)
  /\ WF_vars(render_to_image_mkdir /\ UNCHANGED pvars)
  /\ WF_vars(render_to_image_open /\ UNCHANGED pvars)
  /\ WF_vars(render_to_image_write /\ UNCHANGED pvars)
  /\ WF_vars(get_browser_acquire(RenderCaller) /\ UNCHANGED rvars /\ UNCHANGED pvars)
  /\ WF_vars(get_browser_check(RenderCaller) /\ UNCHANGED rvars /\ UNCHANGED pvars)
  /\ WF_vars(get_browser_start_playwright(RenderCaller) /\ UNCHANGED rvars
                /\ UNCHANGED pvars)
  /\ WF_vars(get_browser_launch(RenderCaller) /\ UNCHANGED rvars /\ UNCHANGED pvars)
  /\ WF_vars(do_render_browser_error /\ UNCHANGED pvars)
  /\ WF_vars(do_render_new_page /\ UNCHANGED pvars)
  /\ WF_vars(do_render_add_init_script /\ UNCHANGED pvars)
  /\ WF_vars(do_render_setup_font_routes /\ UNCHANGED pvars)
  /\ WF_vars(load_and_wait_goto /\ UNCHANGED pvars)
  /\ WF_vars((load_and_wait_math_ready \/ load_and_wait_math_timeout
                 \/ load_and_wait_math_error) /\ UNCHANGED pvars)
  /\ WF_vars((wait_for_tikz_found \/ wait_for_tikz_timeout \/ wait_for_tikz_error)
                /\ UNCHANGED pvars)
  /\ WF_vars(wait_for_tikz_sleep /\ UNCHANGED pvars)
  /\ WF_vars(take_screenshot_resize /\ UNCHANGED pvars)
  /\ WF_vars(take_screenshot_capture /\ UNCHANGED pvars)
  /\ WF_vars(do_render_page_close /\ UNCHANGED pvars)
  /\ WF_vars(~connected /\ wait_for_tikz_count /\ UNCHANGED pvars)
  /\ WF_vars(~connected /\ wait_for_tikz_json_value /\ UNCHANGED pvars)
  /\ WF_vars(~connected /\ take_screenshot_height /\ UNCHANGED pvars)

SpecProgress == Init /\ [][Next]_vars /\ RenderProgress

\* One call of safe_eval_math on one expression.
InitEval ==
  /\ BrowserManagerInit
  /\ RenderIdle
  /\ expr \in Trees(MaxDepth) \cup {<<"SyntaxError">>}
  /\ evaluator = "none"
  /\ result = None
  /\ called = {}
  /\ raised = FALSE
  /\ PlotIdle
  /\ MarkdownIdle
  /\ StructuralIdle
  /\ HandlerIdle
  /\ InstallerIdle

NextEval ==
  \/ call_safe_eval_math /\ UNCHANGED <<bvars, rvars, plotvars, mdvars, svars, hvars, ivars>>

SpecEval == InitEval /\ [][NextEval]_vars

(* One text given to a plot converter: to TikzPlotConverter.convert, whose
   output may be converted once more, or to the plugin's own copy. *)
InitPlot ==
  /\ BrowserManagerInit
  /\ RenderIdle
  /\ EvalIdle
  /\ tikz_code \in PlotTexts
  /\ outputs = << >>
  /\ plots = << >>
  /\ MarkdownIdle
  /\ StructuralIdle
  /\ HandlerIdle
  /\ InstallerIdle

NextPlot ==
  \/ call_convert /\ UNCHANGED <<bvars, rvars, mdvars, svars, hvars, ivars>>
  \/ call_convert_again /\ UNCHANGED <<bvars, rvars, mdvars, svars, hvars, ivars>>
  \/ call_convert_tikz_plot /\ UNCHANGED <<bvars, rvars, mdvars, svars, hvars, ivars>>

SpecPlot == InitPlot /\ [][NextPlot]_vars

(* One text given to a Document Assembler: to MarkdownConverter or to the
   older MathJaxRenderer. *)
InitMarkdown ==
  /\ BrowserManagerInit
  /\ RenderIdle
  /\ EvalIdle
  /\ PlotIdle
  /\ md_text \in Documents(MaxParts)
  /\ converter = "none"
  /\ normalized = << >>
  /\ math_blocks = << >>
  /\ code_blocks = << >>
  /\ full_html = << >>
  /\ StructuralIdle
  /\ HandlerIdle
  /\ InstallerIdle

NextMarkdown ==
  \/ call_convert_to_html /\ UNCHANGED <<bvars, rvars, evars, plotvars, svars, hvars, ivars>>
  \/ call_convert_markdown_to_html /\ UNCHANGED <<bvars, rvars, evars, plotvars, svars, hvars, ivars>>

SpecMarkdown == InitMarkdown /\ [][NextMarkdown]_vars

\* One text given to LatexValidator.validate.
InitValidate ==
  /\ BrowserManagerInit
  /\ RenderIdle
  /\ EvalIdle
  /\ PlotIdle
  /\ MarkdownIdle
  /\ latex \in LatexTexts(MaxFragments)
  /\ component = "none"
  /\ results = << >>
  /\ HandlerIdle
  /\ InstallerIdle

NextValidate ==
  \/ call_validate /\ UNCHANGED <<bvars, rvars, evars, plotvars, mdvars, hvars, ivars>>

SpecValidate == InitValidate /\ [][NextValidate]_vars

\* One text given to TikzConverter.convert.
InitTikz ==
  /\ BrowserManagerInit
  /\ RenderIdle
  /\ EvalIdle
  /\ PlotIdle
  /\ MarkdownIdle
  /\ latex \in TikzTexts(MaxBlocks)
  /\ component = "none"
  /\ results = << >>
  /\ HandlerIdle
  /\ InstallerIdle

NextTikz ==
  \/ call_tikz_convert /\ UNCHANGED <<bvars, rvars, evars, plotvars, mdvars, hvars, ivars>>

SpecTikz == InitTikz /\ [][NextTikz]_vars

\* One text given to ListConverter.convert, twice.
InitList ==
  /\ BrowserManagerInit
  /\ RenderIdle
  /\ EvalIdle
  /\ PlotIdle
  /\ MarkdownIdle
  /\ latex \in ListTexts(MaxLines)
  /\ component = "none"
  /\ results = << >>
  /\ HandlerIdle
  /\ InstallerIdle

NextList ==
  \/ call_list_convert /\ UNCHANGED <<bvars, rvars, evars, plotvars, mdvars, hvars, ivars>>
  \/ call_list_convert_again /\ UNCHANGED <<bvars, rvars, evars, plotvars, mdvars, hvars, ivars>>

SpecList == InitList /\ [][NextList]_vars


\* One text given to TableConverter.convert.
InitTable ==
  /\ BrowserManagerInit
  /\ RenderIdle
  /\ EvalIdle
  /\ PlotIdle
  /\ MarkdownIdle
  /\ latex \in TableTexts(MaxRows)
  /\ component = "none"
  /\ results = << >>
  /\ HandlerIdle
  /\ InstallerIdle

NextTable ==
  \/ call_table_convert /\ UNCHANGED <<bvars, rvars, evars, plotvars, mdvars, hvars, ivars>>

SpecTable == InitTable /\ [][NextTable]_vars


(* The tool calls made on one LLMToolHandler, at most MaxToolCalls of them,
   for events of two origins.  In SpecHandler a call begins when the one
   before it has returned; in SpecHandlerInterleaved a call may begin
   while others stand at an await. *)
InitHandler ==
  /\ BrowserManagerInit
  /\ RenderIdle
  /\ EvalIdle
  /\ PlotIdle
  /\ MarkdownIdle
  /\ StructuralIdle
  /\ last_rendered_image = None
  /\ render_success = FALSE
  /\ tool_calls = << >>
  /\ sent = << >>
  /\ InstallerIdle

MayBegin == Len(tool_calls) < MaxToolCalls
NoneRunning == \A k \in 1 .. Len(tool_calls) : tool_calls[k].at = "done"

NextHandlerInterleaved ==
  \/ \E o \in Origins, content \in {"", "x^2"} :
       MayBegin /\ begin_render_math(o, content)
       /\ UNCHANGED <<bvars, rvars, evars, plotvars, mdvars, svars, ivars>>
  \/ \E k \in 1 .. MaxToolCalls, how \in {"image", "no image", "raised"} :
       render_math_rendered(k, how)
       /\ UNCHANGED <<bvars, rvars, evars, plotvars, mdvars, svars, ivars>>
  \/ \E k \in 1 .. MaxToolCalls :
       render_math_saves(k)
       /\ UNCHANGED <<bvars, rvars, evars, plotvars, mdvars, svars, ivars>>
  \/ \E o \in Origins, exists \in BOOLEAN :
       MayBegin /\ begin_send_image(o, exists)
       /\ UNCHANGED <<bvars, rvars, evars, plotvars, mdvars, svars, ivars>>
  \/ \E k \in 1 .. MaxToolCalls, ok \in BOOLEAN :
       send_image_sent(k, ok)
       /\ UNCHANGED <<bvars, rvars, evars, plotvars, mdvars, svars, ivars>>

NextHandler ==
  \/ \E o \in Origins, content \in {"", "x^2"} :
       MayBegin /\ NoneRunning /\ begin_render_math(o, content)
       /\ UNCHANGED <<bvars, rvars, evars, plotvars, mdvars, svars, ivars>>
  \/ \E k \in 1 .. MaxToolCalls, how \in {"image", "no image", "raised"} :
       render_math_rendered(k, how)
       /\ UNCHANGED <<bvars, rvars, evars, plotvars, mdvars, svars, ivars>>
  \/ \E k \in 1 .. MaxToolCalls :
       render_math_saves(k)
       /\ UNCHANGED <<bvars, rvars, evars, plotvars, mdvars, svars, ivars>>
  \/ \E o \in Origins, exists \in BOOLEAN :
       MayBegin /\ NoneRunning /\ begin_send_image(o, exists)
       /\ UNCHANGED <<bvars, rvars, evars, plotvars, mdvars, svars, ivars>>
  \/ \E k \in 1 .. MaxToolCalls, ok \in BOOLEAN :
       send_image_sent(k, ok)
       /\ UNCHANGED <<bvars, rvars, evars, plotvars, mdvars, svars, ivars>>

SpecHandler == InitHandler /\ [][NextHandler]_vars


(* The render calls made on one orchestrator, at most MaxRenderCalls of
   them, that reach its installer: a call may begin while another stands
   at the await of the installation. *)
InitInstaller ==
  /\ BrowserManagerInit
  /\ RenderIdle
  /\ EvalIdle
  /\ PlotIdle
  /\ MarkdownIdle
  /\ StructuralIdle
  /\ HandlerIdle
  /\ installed = "None"
  /\ install_attempted = FALSE
  /\ check_calls = << >>
  /\ lib_checks = 0
  /\ installs = 0

NextInstaller ==
  \/ \E missing \in BOOLEAN :
       Len(check_calls) < MaxRenderCalls /\ check_and_install(missing)
       /\ UNCHANGED <<bvars, rvars, evars, plotvars, mdvars, svars, hvars>>
  \/ \E k \in 1 .. MaxRenderCalls, success \in BOOLEAN :
       install_deps_returns(k, success)
       /\ UNCHANGED <<bvars, rvars, evars, plotvars, mdvars, svars, hvars>>
  \/ \E k \in 1 .. MaxRenderCalls :
       render_after_check(k)
       /\ UNCHANGED <<bvars, rvars, evars, plotvars, mdvars, svars, hvars>>

SpecInstaller == InitInstaller /\ [][NextInstaller]_vars
SpecHandlerInterleaved == InitHandler /\ [][NextHandlerInterleaved]_vars

(* ====================================================================== *)
(* Properties                                                             *)
(* ====================================================================== *)

Range(f) == {f[i] : i \in DOMAIN f}

\* C1: in a render call whose page has at least one diagram container, a
\* diagram wait that times out without a drawable primitive ends the call
\* with RenderError; no screenshot is taken and the call does not succeed.
C1_TikzTimeoutIsFatal ==
  (containers >= 1 /\ tikzResult = "timeout") =>
     /\ "screenshot" \notin Range(trace)
     /\ outcome # "returned"
     /\ (rpc = "done" /\ ~cancelled => outcome = "raised" /\ exc = "RenderError")

\* C2: once the temporary HTML file has been created, it no longer exists
\* when the call has ended, however the call ends.
C2_TempFileRemoved == rpc = "done" => tmp # "exists"

\* Position of a stage in the order of _load_and_wait / _take_screenshot.
StageRank(e) ==
  CASE e = "goto" -> 1
    [] e = "math_wait" -> 2
    [] e = "tikz_count" -> 3
    [] e = "tikz_wait" -> 4
    [] e = "sleep" -> 5
    [] e = "height" -> 6
    [] e = "resize" -> 7
    [] e = "screenshot" -> 8

\* C3: the stages of one call happen only in the order navigate, math wait,
\* container check, diagram wait, (settle,) height, resize, screenshot; the
\* screenshot is attempted only after navigation succeeded, both waits have
\* ended and the viewport was resized.
C3_StageOrder ==
  /\ \A i, j \in DOMAIN trace : i < j => StageRank(trace[i]) < StageRank(trace[j])
  /\ (rpc = "screenshot" \/ "screenshot" \in Range(trace)) =>
        /\ {"goto", "math_wait", "tikz_count", "height", "resize"} \subseteq Range(trace)
        /\ mathResult # "none"
        /\ (containers > 0 => "tikz_wait" \in Range(trace) /\ tikzResult # "none")

C3_Witness ==
  /\ rpc = "done"
  /\ outcome = "returned"
  /\ trace = <<"goto", "math_wait", "tikz_count", "tikz_wait", "sleep",
               "height", "resize", "screenshot">>

\* C4: a math wait that times out or raises never makes the call fail: the
\* call goes on to the container check, and unless a later stage fails or
\* the task is cancelled it resizes, takes the screenshot and returns.
C4_MathWaitNeverFatal ==
  mathResult \in {"timeout", "error"} =>
     /\ failedAt # "math_wait"
     /\ rpc # "math_wait"
     /\ (rpc = "done" /\ failedAt = "none" /\ ~cancelled =>
           /\ outcome = "returned"
           /\ {"tikz_count", "resize", "screenshot"} \subseteq Range(trace))

C4_Witness ==
  /\ rpc = "done"
  /\ mathResult = "timeout"
  /\ outcome = "returned"
  /\ "screenshot" \in Range(trace)

\* C5: with zero diagram containers the call never enters the diagram wait
\* (no polling, no json_value, no settle delay) and no failure comes from it.
C5_NoContainersNoTikzWait ==
  containers = 0 =>
     /\ rpc \notin {"tikz_wait", "json_value", "sleep"}
     /\ tikzResult = "none"
     /\ "tikz_wait" \notin Range(trace)
     /\ "sleep" \notin Range(trace)
     /\ failedAt \notin {"tikz_wait", "json_value"}

C5_Witness ==
  /\ containers = 0
  /\ rpc = "done"
  /\ outcome = "returned"
  /\ "tikz_count" \in Range(trace)

\* C6: on a page with several containers the diagram wait succeeds as soon
\* as any container holds an svg with a drawable primitive; so the wait
\* cannot time out while some container holds one.
C6_AnyContainerEndsWait ==
  [][(rpc = "tikz_wait" /\ tikzResult' = "timeout") =>
       \A i \in 1 .. containers : ~svg[i]]_vars

\* The caller is between acquiring and releasing the lock.
InSection(t) == pc[t] \in {"check", "start_pw", "launch", "close_browser", "close_pw"}

\* C7: at most one caller is inside the launch or teardown section of the
\* BrowserManager at any time, and that caller holds the lock.
C7_OneLaunchOrTeardown ==
  /\ \A t1, t2 \in Callers : InSection(t1) /\ InSection(t2) => t1 = t2
  /\ \A t \in Callers : InSection(t) => lock = t

C7_Witness ==
  \E t1, t2, t3 \in Tasks :
     /\ pc[t1] = "launch"
     /\ pc[t2] = "acquire"
     /\ pc[t3] = "close_acquire"

\* C8: get_browser takes the launch branch if and only if its check inside
\* the lock saw no stored browser or a disconnected one; otherwise it
\* returns the stored instance.  A call never returns the instance it saw
\* disconnected.  Every launch after the first is paid for by a failure, a
\* disconnection or a close(): without any of these there is exactly one
\* launch and every call returns the same instance.
C8_LaunchIffNeeded ==
  /\ \A t \in Callers :
        /\ pc[t] \in {"start_pw", "launch", "raised"} =>
              (seen[t][1] = 0 \/ ~seen[t][2])
        /\ pc[t] = "returned" =>
              /\ ret[t] # 0
              /\ IF seen[t][1] # 0 /\ seen[t][2]
                   THEN ret[t] = seen[t][1]
                   ELSE ret[t] # seen[t][1]
  /\ launches <= 1 + faults
  /\ (\E t \in Callers : pc[t] = "returned") => launches >= 1
  /\ faults = 0 =>
        \A t1, t2 \in Callers :
           pc[t1] = "returned" /\ pc[t2] = "returned" => ret[t1] = ret[t2]

C8_Witness ==
  /\ \A t \in Tasks : pc[t] = "returned" /\ ret[t] = 1
  /\ launches = 1
  /\ faults = 0

\* C9: every page a render call opened is closed when the call has ended.
C9_PageClosed == rpc = "done" => page # "open"

\* C10: an Exception raised at any stage that is not absorbed aborts the
\* call and leaves RenderOrchestrator.render as a RenderError (or a
\* subclass); no other Exception type escapes and no path is returned.
C10_OnlyRenderErrorEscapes ==
  /\ (outcome = "raised" /\ ~cancelled) => exc \in RenderErrorKinds
  /\ outcome = "raised" => exc \in RenderErrorKinds \cup {"CancelledError"}
  /\ failedAt # "none" => outcome # "returned"
  /\ (rpc = "done" /\ failedAt # "none") => outcome = "raised"

C10_Witness ==
  /\ rpc = "done"
  /\ failedAt = "write"
  /\ outcome = "raised"
  /\ exc = "RenderError"

\* C11: every render call that has started eventually ends, by returning a
\* path or by raising, given only the progress the code itself guarantees
\* (RenderProgress).
C11_RenderCallEnds == (outcome = "running") ~> (rpc = "done")

RECURSIVE HasDisallowedNode(_)
HasDisallowedNode(t) ==
  CASE t[1] = "Constant" -> t[2] = "str"
    [] t[1] = "Name" -> t[2] \notin {"pi", "e"}
    [] t[1] = "BinOp" -> \/ t[2] \notin ALLOWED_BINARY_OPS
                         \/ HasDisallowedNode(t[3])
                         \/ HasDisallowedNode(t[4])
    [] t[1] = "UnaryOp" -> t[2] \notin ALLOWED_UNARY_OPS \/ HasDisallowedNode(t[3])
    [] t[1] = "Call" -> \/ t[2][1] # "Name"
                        \/ t[2][2] \notin ALLOWED_FUNCTIONS
                        \/ t[4] # << >>
                        \/ \E i \in DOMAIN t[3] : HasDisallowedNode(t[3][i])
    [] OTHER -> TRUE

\* C12: for an expression whose tree holds a node outside the allow-list, and
\* for a text that does not parse, safe_eval_math returns NaN, raises
\* nothing, and has called only allow-listed functions.
C12_DisallowedYieldsNaN ==
  (evaluator = "safe_eval_math"
     /\ (expr = <<"SyntaxError">> \/ HasDisallowedNode(expr)))
  => (result = NaN /\ ~raised /\ called \subseteq ALLOWED_FUNCTIONS)

\* sqrt(2, <keyword>=2) and the like: the only flaw is the keyword argument
C12_Witness ==
  /\ evaluator = "safe_eval_math"
  /\ expr[1] = "Call"
  /\ expr[4] # << >>
  /\ ~HasDisallowedNode(<<"Call", expr[2], expr[3], << >> >>)
  /\ result = NaN

\* C13: on every path of the repository that converts plot commands, the
\* evaluation of a plot expression calls no function outside the allow-list
\* of the syntax-tree walker.
C13_OnlyAllowListedCalls == called \subseteq ALLOWED_FUNCTIONS

\* a value that is neither NaN nor an infinity
Finite(v) == IsRational(v) \/ v = Untracked
PointsOf(text) == SelectSeq(text, IsPoint)
FiniteSamples(plot) == SelectSeq(plot, LAMBDA s : Finite(s[2]) /\ Finite(s[3]))
\* a + i * (b - a) / (n - 1), the single value a when n = 1
SampleValue(a, b, n, i) ==
  IF n = 1 THEN Float(a, 1) ELSE Float(a * (n - 1) + i * (b - a), n - 1)

\* C14: for a plot command with domain=a:b and samples=N the converter
\* evaluates exactly the N sample values a + i*(b-a)/(N-1), i = 0..N-1 (the
\* value a alone when N = 1), and its output holds, in increasing i, one
\* point with 4 decimals for exactly the samples with two finite
\* coordinates; \x^2 on 0:1 with 3 samples gives (0.0000,0.0000),
\* (0.5000,0.2500), (1.0000,1.0000).
C14_SamplesAndPoints ==
  \A style \in Styles, a \in -MaxDomain .. MaxDomain, b \in -MaxDomain .. MaxDomain,
     n \in 0 .. MaxSamples, y \in Expressions :
    (/\ evaluator = "safe_eval_math"
     /\ tikz_code = PlotCommand(style \o DomainOption(a, b) \o SamplesOption(n), VarX, y))
    => /\ Len(outputs) >= 1
       /\ Len(plots) = 1
       /\ Len(plots[1]) = n
       /\ \A i \in 1 .. n : plots[1][i][1] = SampleValue(a, b, n, i - 1)
       /\ PointsOf(outputs[1]) =
            [j \in 1 .. Len(FiniteSamples(plots[1])) |->
               format_point(FiniteSamples(plots[1])[j][2], FiniteSamples(plots[1])[j][3])]
       /\ (style = << >> /\ a = 0 /\ b = 1 /\ n = 3
           /\ y = <<Tok("\\x"), Tok("^"), Num("int", 2, 1)>>)
          => outputs[1] = <<Tok("\\draw"), Tok("["), Tok("]"), Space, Point(0, 0),
                            Tok(" -- "), Point(5000, 2500), Tok(" -- "),
                            Point(10000, 10000), Tok(";")>>

\* a plot of 3 samples, of which one has no finite y and two are emitted
C14_Witness ==
  /\ evaluator = "safe_eval_math"
  /\ Len(outputs) >= 1
  /\ Len(plots) = 1
  /\ Len(plots[1]) = 3
  /\ isnan(plots[1][1][3])
  /\ Len(PointsOf(outputs[1])) = 2

HasEmptyDraw(text) ==
  \E i \in 1 .. Len(text) - 2 :
    text[i] = Tok("]") /\ text[i + 1] = Space /\ text[i + 2] = Tok(";")
CommentsOf(text) == SelectSeq(text, LAMBDA t : t = failure_comment("TikzPlotConverter"))

\* C15: the converter never emits a \draw command with an empty chain of
\* coordinates: every matched plot with a domain of which no sample has
\* two finite coordinates becomes a comment.
C15_NoEmptyDraw ==
  (evaluator = "safe_eval_math" /\ Len(outputs) >= 1)
  => /\ ~HasEmptyDraw(outputs[1])
     /\ Len(CommentsOf(outputs[1])) =
          Cardinality({k \in 1 .. Len(plots) : FiniteSamples(plots[k]) = << >>})

\* a plot of two samples, neither with a finite y, that became a comment
C15_Witness ==
  /\ evaluator = "safe_eval_math"
  /\ Len(outputs) >= 1
  /\ Len(plots) = 1
  /\ Len(plots[1]) = 2
  /\ FiniteSamples(plots[1]) = << >>
  /\ outputs[1][1] = failure_comment("TikzPlotConverter")

\* the plot commands of a text, from left to right
RECURSIVE Commands(_)
CommandsFrom(m) == IF m.ok THEN <<m>> \o Commands(m.rest) ELSE << >>
Commands(text) == CommandsFrom(re_search(PlotPattern, text))
WithDomain(m) == parse_domain(m.groups[1]) # None
Occurs(part, text) ==
  \E i \in 0 .. Len(text) - Len(part) : SubSeq(text, i + 1, i + Len(part)) = part

\* C16: a matched plot command without domain=min:max stands in the output
\* of the converter exactly as in the input, and the other plot commands of
\* the text are converted.
C16_NoDomainLeftAlone ==
  (/\ evaluator = "safe_eval_math"
   /\ SelectSeq(Commands(tikz_code), LAMBDA m : ~WithDomain(m)) # << >>)
  => /\ Len(outputs) >= 1
     /\ \A k \in 1 .. Len(Commands(tikz_code)) :
          ~WithDomain(Commands(tikz_code)[k])
          => Occurs(Commands(tikz_code)[k].whole, outputs[1])
     /\ Len(plots) = Len(SelectSeq(Commands(tikz_code), WithDomain))

\* C17: convert is idempotent on its own output: convert(convert(t)) =
\* convert(t).
C17_Idempotent ==
  /\ (evaluator = "safe_eval_math" /\ Len(outputs) = 1) => ~raised
  /\ Len(outputs) = 2 => outputs[2] = outputs[1]

IsPlaceholder(tok) == tok[1] \in {"MATHBLOCK", "CODEBLOCK"}

\* C18: the page returned by MarkdownConverter.convert_to_html holds none
\* of the placeholders made while the spans were protected and holds every
\* protected math span unchanged, also when one protected span lies inside
\* another.
C18_RoundTrip ==
  converter = "MarkdownConverter"
  => /\ \A i \in 1 .. Len(full_html) : ~IsPlaceholder(full_html[i])
     /\ \A k \in 1 .. Len(math_blocks) : Occurs(math_blocks[k], full_html)

\* C19: the assembler protects the fenced code blocks before the math
\* spans, so that no math span is taken out of a fenced code block.
C19_CodeBeforeMath ==
  converter # "none"
  => \A k \in 1 .. Len(code_blocks) :
       \A i \in 1 .. Len(code_blocks[k]) : code_blocks[k][i][1] # "MATHBLOCK"

\* the lines of a text between an opening and a closing fence
FencedLines(lines) ==
  {lines[k] : k \in {k \in 1 .. Len(lines) :
                       /\ in_code_block(lines, k)
                       /\ ~is_fence(lines[k])
                       /\ \E m \in k + 1 .. Len(lines) : is_fence(lines[m])}}
Lines(text) == {split(text)[k] : k \in 1 .. Len(split(text))}

\* C20: _preprocess_markdown leaves every line between an opening and a
\* closing fence unchanged, escaped line breaks included.
C20_FencedCodeKept ==
  converter = "MarkdownConverter"
  => FencedLines(split(fix_tikz_comments(md_text))) \subseteq Lines(normalized)

\* the text \frac{1}{2} \lbrace
FracLbrace ==
  <<Frac, Open, Tok("1"), Close, Open, Tok("2"), Close, Space, Tok("\\lbrace")>>
Diagnostics(errors, kind) == SelectSeq(errors, LAMBDA e : e[1] = kind)

\* C21 as stated: for the text \frac{1}{2} \lbrace the validator reports
\* exactly one diagnostic of the braces and none of \frac.
C21_OneBraceDiagnostic ==
  (component = "LatexValidator" /\ latex = FracLbrace)
  => /\ Len(Diagnostics(results[1].errors, "braces")) = 1
     /\ Len(Diagnostics(results[1].errors, "frac")) = 0

\* C21: for the text \frac{1}{2} \lbrace the validator reports no
\* diagnostic of the braces and none of \frac.
C21_NoBraceDiagnostic ==
  (component = "LatexValidator" /\ latex = FracLbrace)
  => /\ Len(Diagnostics(results[1].errors, "braces")) = 0
     /\ Len(Diagnostics(results[1].errors, "frac")) = 0

\* the validator has returned for \frac{1}{2} \lbrace
C21_Witness ==
  /\ component = "LatexValidator"
  /\ latex = FracLbrace
  /\ Len(results) = 1
  /\ results[1].is_valid

\* token i of the text lies inside a tikzpicture, tikzcd or circuitikz
\* environment
InsideEnvironment(text, i) ==
  \E name \in {"tikzpicture", "tikzcd", "circuitikz"} :
    \E a \in 1 .. i - 1 : environment_end(text, a, name) >= i

\* C22: TikzConverter.convert wraps every \chemfig{...} command that is not
\* inside a TikZ environment into a container of its own, also when the
\* text holds a TikZ environment that was converted.
C22_ChemfigWrapped ==
  (component = "TikzConverter" /\ results[1].exc = None)
  => \A i \in 1 .. Len(latex) :
       (chemfig_end(latex, i) # 0 /\ ~InsideEnvironment(latex, i))
       => Occurs(convert_chemfig_block(SubSeq(latex, i, chemfig_end(latex, i))).text,
                 results[1].text)

\* the lines given to the item conversion, and the lines it returned
LinesIn == split(remove_markers(latex))
LinesOut == split(results[1])
StartsWithItem(line) == strip(line) # << >> /\ strip(line)[1] = Item
ItemsUpTo(lines, i) == Cardinality({j \in 1 .. i : StartsWithItem(lines[j])})

IsSeparatorRow(line) ==
  /\ line # << >>
  /\ line[1] = Pipe
  /\ \A k \in 1 .. Len(line) : line[k] \in {Pipe, Dashes}
HasDataRow(content) ==
  \E k \in 1 .. Len(content) : content[k] \notin White \cup {RowEnd, Hline}
SeparatorAfterFirstRow(out) ==
  /\ Cardinality({k \in 1 .. Len(out) : IsSeparatorRow(out[k])}) = 1
  /\ Len(out) >= 2
  /\ IsSeparatorRow(out[2])
  /\ Cardinality({k \in 1 .. Len(out[2]) : out[2][k] = Dashes})
       = Cardinality({k \in 1 .. Len(out[1]) : out[1][k] = Tok(" | ")}) + 1

\* C24: for every tabular environment of the text with at least one
\* non-empty row, the rows put in its place hold exactly one separator
\* row, directly after the first data row and with as many --- cells as
\* that row has cells, wherever the first non-empty row stands among the
\* chunks between row separators.
C24_OneSeparatorRow ==
  component = "TableConverter"
  => \A i \in 1 .. Len(latex) :
       (tabular_end(latex, i) # 0 /\ HasDataRow(tabular_content(latex, i)))
       => /\ Occurs(convert_tabular(tabular_content(latex, i)), results[1])
          /\ SeparatorAfterFirstRow(split(convert_tabular(tabular_content(latex, i))))

Squared == <<Tok("\\x"), Tok("^"), Num("int", 2, 1)>>

\* C25: the y-coordinate the converter computes for sample value x is the
\* value of the y-expression with the sampling variable bound to x: x
\* itself for the y-expression \x, and x squared, which is never negative,
\* for the y-expression \x^2, also at a negative sample.
C25_YAtSample ==
  \A style \in Styles, a \in -MaxDomain .. MaxDomain, b \in -MaxDomain .. MaxDomain,
     n \in 0 .. MaxSamples, y \in {VarX, Squared} :
    (/\ evaluator = "safe_eval_math"
     /\ tikz_code = PlotCommand(style \o DomainOption(a, b) \o SamplesOption(n), VarX, y)
     /\ Len(plots) = 1)
    => \A i \in 1 .. Len(plots[1]) :
         plots[1][i][3] =
           IF y = VarX THEN plots[1][i][1]
           ELSE float_mul(plots[1][i][1], plots[1][i][1])

MacroTokens == {SIMPLE_MACROS[k][1] : k \in 1 .. Len(SIMPLE_MACROS)}

\* C26: the macro substitution of a TikZ block rewrites the shorthand
\* macros only: a command whose name begins with a shorthand, such as
\* \Rightarrow or \epsilon, is in the output as it was.
C26_OnlyWholeMacros ==
  (component = "TikzConverter" /\ results[1].exc = None)
  => \A i \in 1 .. Len(latex) - 1 :
       (latex[i] \in MacroTokens /\ latex[i + 1][1] = "w")
       => Occurs(<<latex[i], latex[i + 1]>>, results[1].text)

RECURSIVE HasOtherConstant(_)
HasOtherConstant(t) ==
  CASE t[1] = "Constant" -> t[2] \notin {"int", "float"}
    [] t[1] = "BinOp" -> HasOtherConstant(t[3]) \/ HasOtherConstant(t[4])
    [] t[1] = "UnaryOp" -> HasOtherConstant(t[3])
    [] t[1] = "Call" -> \/ HasOtherConstant(t[2])
                        \/ \E i \in DOMAIN t[3] : HasOtherConstant(t[3][i])
                        \/ \E i \in DOMAIN t[4] : HasOtherConstant(t[4][i])
    [] t[1] \in {"Attribute", "Subscript", "Compare"} -> HasOtherConstant(t[2])
    [] OTHER -> FALSE

\* C27: the only literals safe_eval_math accepts are numeric literals: for
\* an expression that holds any other constant, such as True or None, it
\* returns NaN.
C27_OnlyNumericLiterals ==
  (evaluator = "safe_eval_math" /\ expr # <<"SyntaxError">> /\ HasOtherConstant(expr))
  => result = NaN

Rendered(k) == tool_calls[k].tool = "render_math" /\ tool_calls[k].returned = "rendered"
RenderFailed(k) ==
  tool_calls[k].tool = "render_math" /\ tool_calls[k].returned = "render failed"
Delivered(k) == tool_calls[k].tool = "send_image" /\ tool_calls[k].returned = "sent"
SendFailed(k) == tool_calls[k].tool = "send_image" /\ tool_calls[k].returned = "send failed"

\* C28: over the calls made one after another on a handler, send_image
\* delivers an image only if a render_math call has rendered it since the
\* last delivery and no render has failed since; no image is delivered
\* twice; after a send that failed the image is still pending; and whenever
\* the flag is set an image path is recorded.
C28_PendingImage ==
  /\ \A k \in 1 .. Len(tool_calls) :
       Delivered(k)
       => \E j \in 1 .. k - 1 :
            /\ Rendered(j)
            /\ tool_calls[k].image = Image(j)
            /\ \A i \in j + 1 .. k - 1 : ~Delivered(i) /\ ~RenderFailed(i)
  /\ Len(sent) = Cardinality({k \in 1 .. Len(tool_calls) : Delivered(k)})
  /\ \A i \in 1 .. Len(sent) : \A j \in 1 .. Len(sent) : sent[i][2] = sent[j][2] => i = j
  /\ (tool_calls # << >> /\ SendFailed(Len(tool_calls)))
     => (has_pending_image /\ last_rendered_image = tool_calls[Len(tool_calls)].image)
  /\ render_success => last_rendered_image # None

\* a render, a send that failed, a send that delivered the image, and a
\* send that found nothing left to send
C28_Witness ==
  /\ Len(tool_calls) = 4
  /\ Rendered(1)
  /\ SendFailed(2)
  /\ Delivered(3)
  /\ tool_calls[4].returned = "nothing rendered"
  /\ sent = <<(<<tool_calls[3].origin, Image(1)>>)>>

\* C29: when the calls made for two origins interleave on the handler, an
\* image delivered to an origin was rendered by a render_math call made for
\* that origin.
C29_OwnImageOnly ==
  \A i \in 1 .. Len(sent) : tool_calls[sent[i][2][2]].origin = sent[i][1]

ReturnedTrue == \E k \in 1 .. Len(check_calls) : check_calls[k].returned = "True"
AttemptRunning == \E k \in 1 .. Len(check_calls) : check_calls[k].at = "install"
AttemptFailed == installs > 0 /\ ~AttemptRunning /\ installed # "True"
CallBegins == Len(check_calls') = Len(check_calls) + 1
NewCall == check_calls'[Len(check_calls')]

\* C30: over any interleaving of check_and_install calls the installation
\* is attempted at most once; once a call has returned True a later call
\* returns True without a new check or install; after a failed attempt a
\* later call returns False; a call that arrives while the attempt runs
\* returns False; and a render whose check returned False raises
\* DependencyError before it has taken any other step.
C30_InstallOnce ==
  [][/\ installs' <= 1
     /\ (CallBegins /\ ReturnedTrue)
        => (NewCall.returned = "True" /\ lib_checks' = lib_checks /\ installs' = installs)
     /\ (CallBegins /\ AttemptFailed) => NewCall.returned = "False"
     /\ (CallBegins /\ AttemptRunning) => NewCall.returned = "False"
     /\ \A k \in 1 .. Len(check_calls') :
          check_calls'[k].returned = "False"
          => (check_calls'[k].exc = "DependencyError" /\ check_calls'[k].steps = {})]_vars

\* a call began the installation, a second call arrived meanwhile and got
\* False and a DependencyError, the installation succeeded, and a third
\* call got True
C30_Witness ==
  /\ Len(check_calls) >= 3
  /\ installs = 1
  /\ lib_checks = 1
  /\ check_calls[1].returned = "True"
  /\ check_calls[2].returned = "False"
  /\ check_calls[2].exc = "DependencyError"
  /\ check_calls[3].returned = "True"

====
